---- MODULE Spec2Model ----
(***************************************************************************)
(* A model of the streaming JSON codec of serde-json-exercise.             *)
(*                                                                         *)
(* Bytes are the integers 0..255 and characters are Unicode code points.   *)
(* The Serializer (src/src/ser.rs) is a pure function of the value and the *)
(* Serializer's two fields (output, start); it is modelled by operators    *)
(* over a record [out, start, err].  The Deserializer (src/src/de.rs) is   *)
(* modelled as a machine: the fields of the Deserializer (input, its read  *)
(* offset pos, hold), the call in progress (ctl) and the pending visitor   *)
(* calls (stack).  Every deserialize_* method, cursor pull and iteration   *)
(* of the parse_string loop is one action.                                 *)
(***************************************************************************)
EXTENDS Integers, Sequences, FiniteSets

VARIABLES value, shape, gap, output, input, pos, hold, ctl, stack, result, first, pc

vars == <<value, shape, gap, output, input, pos, hold, ctl, stack, result, first, pc>>

(***************************************************************************)
(* Bytes and characters                                                    *)
(***************************************************************************)

\* The ASCII codes of the byte and char literals of ser.rs and de.rs.
B == [quote |-> 34, bslash |-> 92, lbrack |-> 91, rbrack |-> 93, lbrace |-> 123, rbrace |-> 125, colon |-> 58, comma |-> 44, minus |-> 45, plus |-> 43, dot |-> 46, zero |-> 48, nine |-> 57, space |-> 32, tab |-> 9, lf |-> 10, cr |-> 13, bs |-> 8, ff |-> 12, a |-> 97, b |-> 98, e |-> 101, f |-> 102, l |-> 108, n |-> 110, r |-> 114, s |-> 115, t |-> 116, u |-> 117, upA |-> 65, upE |-> 69, upF |-> 70]

\* b"null", b"true", b"false"
NullLit == <<B.n, B.u, B.l, B.l>>

TrueLit == <<B.t, B.r, B.u, B.e>>

FalseLit == <<B.f, B.a, B.l, B.s, B.e>>

\* Option<u8>::None of the hold register
NoByte == 0 - 1

\* char::is_whitespace on `byte as char` (the code points 0..255 that have the
\* Unicode White_Space property)
IsWhitespace(b) == (b >= 9 /\ b <= 13) \/ b = 32 \/ b = 133 \/ b = 160

\* u8::is_ascii_digit
IsDigit(b) == b >= B.zero /\ b <= B.nine

Last(s) == s[Len(s)]

RECURSIVE Flatten(_)
Flatten(ss) == IF ss = <<>> THEN <<>> ELSE Head(ss) \o Flatten(Tail(ss))

\* char::encode_utf8, as String::as_bytes shows a String
Utf8Char(c) ==
  IF c < 128 THEN <<c>>
  ELSE IF c < 2048 THEN <<192 + (c \div 64), 128 + (c % 64)>>
  ELSE IF c < 65536 THEN <<224 + (c \div 4096), 128 + ((c \div 64) % 64), 128 + (c % 64)>>
  ELSE <<240 + (c \div 262144), 128 + ((c \div 4096) % 64), 128 + ((c \div 64) % 64), 128 + (c % 64)>>

Utf8Encode(chars) == Flatten([i \in 1..Len(chars) |-> Utf8Char(chars[i])])

IsCont(bs, i) == i <= Len(bs) /\ bs[i] >= 128 /\ bs[i] <= 191

\* String::from_utf8: the characters of a byte vector, or a Utf8 error
RECURSIVE Utf8From(_, _, _)
Utf8From(bs, i, out) ==
  IF i > Len(bs) THEN [ok |-> TRUE, chars |-> out]
  ELSE LET b0 == bs[i] IN
    IF b0 < 128 THEN Utf8From(bs, i + 1, Append(out, b0))
    ELSE IF b0 >= 194 /\ b0 <= 223 /\ IsCont(bs, i + 1)
      THEN Utf8From(bs, i + 2, Append(out, (b0 - 192) * 64 + (bs[i + 1] - 128)))
    ELSE IF b0 >= 224 /\ b0 <= 239 /\ IsCont(bs, i + 1) /\ IsCont(bs, i + 2)
            /\ (b0 = 224 => bs[i + 1] >= 160) /\ (b0 = 237 => bs[i + 1] <= 159)
      THEN Utf8From(bs, i + 3, Append(out, (b0 - 224) * 4096 + (bs[i + 1] - 128) * 64 + (bs[i + 2] - 128)))
    ELSE IF b0 >= 240 /\ b0 <= 244 /\ IsCont(bs, i + 1) /\ IsCont(bs, i + 2) /\ IsCont(bs, i + 3)
            /\ (b0 = 240 => bs[i + 1] >= 144) /\ (b0 = 244 => bs[i + 1] <= 143)
      THEN Utf8From(bs, i + 4, Append(out, (b0 - 240) * 262144 + (bs[i + 1] - 128) * 4096 + (bs[i + 2] - 128) * 64 + (bs[i + 3] - 128)))
    ELSE [ok |-> FALSE, chars |-> <<>>]

from_utf8(bs) == Utf8From(bs, 1, <<>>)

(***************************************************************************)
(* The data model: a value is [t, n, c, s]: its kind, its number, its      *)
(* characters (a string's text, a variant's or struct field's name) and    *)
(* its parts.                                                              *)
(***************************************************************************)

Val(t, n, c, s) == [t |-> t, n |-> n, c |-> c, s |-> s]

NoVal == Val("-", 0, <<>>, <<>>)

VBool(b) == Val("bool", IF b THEN 1 ELSE 0, <<>>, <<>>)

VInt(t, n) == Val(t, n, <<>>, <<>>)

VU8(n) == VInt("u8", n)

VStr(chars) == Val("str", 0, chars, <<>>)

VChar(c) == Val("char", 0, <<c>>, <<>>)

VUnit == Val("unit", 0, <<>>, <<>>)

VNone == Val("none", 0, <<>>, <<>>)

VSome(v) == Val("some", 0, <<>>, <<v>>)

VSeq(vs) == Val("seq", 0, <<>>, vs)

VTuple(vs) == Val("tuple", 0, <<>>, vs)

VEntry(k, v) == Val("entry", 0, <<>>, <<k, v>>)

\* a map is the sequence of its entries, in iteration order
VMap(entries) == Val("map", 0, <<>>, entries)

\* a struct is the sequence of its fields, each an entry keyed by the field's name
VStruct(entries) == Val("struct", 0, <<>>, entries)

VNewtype(v) == Val("newtype", 0, <<>>, <<v>>)

VUnitVariant(name) == Val("unit_variant", 0, name, <<>>)

VNewtypeVariant(name, v) == Val("newtype_variant", 0, name, <<v>>)

VTupleVariant(name, vs) == Val("tuple_variant", 0, name, vs)

VStructVariant(name, entries) == Val("struct_variant", 0, name, entries)

(***************************************************************************)
(* Escape codec                                                            *)
(***************************************************************************)

HexDigit(d) == IF d < 10 THEN B.zero + d ELSE B.a + (d - 10)

\* an escape without the arm for the other control characters
escape_no_unicode(c) ==
  CASE c = B.quote -> <<B.bslash, B.quote>>
    [] c = B.bslash -> <<B.bslash, B.bslash>>
    [] c = B.bs -> <<B.bslash, B.b>>
    [] c = B.ff -> <<B.bslash, B.f>>
    [] c = B.lf -> <<B.bslash, B.n>>
    [] c = B.cr -> <<B.bslash, B.r>>
    [] c = B.tab -> <<B.bslash, B.t>>
    [] OTHER -> <<c>>

\* ser.rs escape: the characters written for one character of a string
escape(c) ==
  CASE c = B.quote -> <<B.bslash, B.quote>>
    [] c = B.bslash -> <<B.bslash, B.bslash>>
    [] c = B.bs -> <<B.bslash, B.b>>
    [] c = B.ff -> <<B.bslash, B.f>>
    [] c = B.lf -> <<B.bslash, B.n>>
    [] c = B.cr -> <<B.bslash, B.r>>
    [] c = B.tab -> <<B.bslash, B.t>>
    [] c <= 31 /\ c \notin {B.bs, B.ff, B.lf, B.cr, B.tab} -> <<B.bslash, B.u, B.zero, B.zero, HexDigit(c \div 16), HexDigit(c % 16)>>
    [] OTHER -> <<c>>

\* char::to_digit(16), or -1
HexVal(c) ==
  IF c >= B.zero /\ c <= B.nine THEN c - B.zero
  ELSE IF c >= B.a /\ c <= B.f THEN c - B.a + 10
  ELSE IF c >= B.upA /\ c <= B.upF THEN c - B.upA + 10
  ELSE 0 - 1

\* from_str_radix reading the last character only
from_str_radix_last(c1, c2) ==
  IF c1 = B.plus THEN HexVal(c2)
  ELSE IF HexVal(c1) < 0 \/ HexVal(c2) < 0 THEN 0 - 1
  ELSE HexVal(c2)

\* u32::from_str_radix(two characters, 16), or -1 for a ParseIntError: a
\* leading `+` is a sign, every other character must be a hex digit
from_str_radix(c1, c2) ==
  IF c1 = B.plus THEN HexVal(c2)
  ELSE IF HexVal(c1) < 0 \/ HexVal(c2) < 0 THEN 0 - 1
  ELSE HexVal(c1) * 16 + HexVal(c2)

\* de.rs unescape: i is the position of the `chars` iterator, out the String
\* built so far.  kind is "ok", "err" (e names the Error) or "panic".
RECURSIVE UnescapeFrom(_, _, _)
UnescapeFrom(s, i, out) ==
  IF i > Len(s) THEN [kind |-> "ok", s |-> out, e |-> ""]
  ELSE IF s[i] # B.bslash THEN UnescapeFrom(s, i + 1, Append(out, s[i]))
  ELSE IF i + 1 > Len(s) THEN [kind |-> "panic", s |-> out, e |-> ""]
  ELSE LET c == s[i + 1] IN
    CASE c = B.quote -> UnescapeFrom(s, i + 2, Append(out, B.quote))
      [] c = B.bslash -> UnescapeFrom(s, i + 2, Append(out, B.bslash))
      [] c = B.b -> UnescapeFrom(s, i + 2, Append(out, B.bs))
      [] c = B.f -> UnescapeFrom(s, i + 2, Append(out, B.ff))
      [] c = B.n -> UnescapeFrom(s, i + 2, Append(out, B.lf))
      [] c = B.r -> UnescapeFrom(s, i + 2, Append(out, B.cr))
      [] c = B.t -> UnescapeFrom(s, i + 2, Append(out, B.tab))
      [] c = B.u ->
           IF i + 5 > Len(s) THEN [kind |-> "err", s |-> out, e |-> "InvalidEscape"]
           ELSE LET x == from_str_radix(s[i + 4], s[i + 5]) IN
             IF x < 0 THEN [kind |-> "err", s |-> out, e |-> "ParseInt"]
             ELSE UnescapeFrom(s, i + 6, Append(out, x))
      [] OTHER -> UnescapeFrom(s, i + 2, Append(out, c))

unescape(s) == UnescapeFrom(s, 1, <<>>)

(***************************************************************************)
(* Serializer                                                              *)
(***************************************************************************)

\* Serializer::new: an empty sink, start = false, no error yet
NewSerializer == [out |-> <<>>, start |-> FALSE, err |-> ""]

\* output.write_all(bytes)?  (after an error nothing more is written)
Write(st, bytes) == IF st.err # "" THEN st ELSE [st EXCEPT !.out = @ \o bytes]

Fail(st, e) == IF st.err # "" THEN st ELSE [st EXCEPT !.err = e]

RECURSIVE Digits(_)
Digits(n) == IF n < 10 THEN <<B.zero + n>> ELSE Append(Digits(n \div 10), B.zero + (n % 10))

\* itoa::Buffer::format
Itoa(n) == IF n < 0 THEN <<B.minus>> \o Digits(0 - n) ELSE Digits(n)

serialize_bool(st, v) == Write(st, IF v THEN TrueLit ELSE FalseLit)

serialize_i64(st, v) == Write(st, Itoa(v))

serialize_u64(st, v) == Write(st, Itoa(v))

\* a float is held as the text f64::to_string gives it
serialize_f64(st, text) == Write(st, text)

serialize_str(st, v) == Write(Write(Write(st, <<B.quote>>), Utf8Encode(Flatten([i \in 1..Len(v) |-> escape(v[i])]))), <<B.quote>>)

serialize_char(st, v) == serialize_str(st, <<v>>)

serialize_unit(st) == Write(st, NullLit)

serialize_none(st) == serialize_unit(st)

serialize_seq(st) == Write([st EXCEPT !.start = IF st.err # "" THEN @ ELSE TRUE], <<B.lbrack>>)

serialize_map(st) == Write([st EXCEPT !.start = IF st.err # "" THEN @ ELSE TRUE], <<B.lbrace>>)

\* a VariantOpen that leaves out the `:` after the variant's name
VariantOpenNoColon(st, variant) == serialize_str(Write(st, <<B.lbrace>>), variant)

\* the `{"Variant":` that opens a newtype, tuple or struct variant
VariantOpen(st, variant) == Write(serialize_str(Write(st, <<B.lbrace>>), variant), <<B.colon>>)

\* a Separator that leaves the start flag set after the first element
SeparatorStuck(st) == IF st.err # "" THEN st ELSE IF ~st.start THEN Write(st, <<B.comma>>) ELSE st

\* the first half of SerializeSeq::serialize_element and SerializeMap::serialize_key
Separator(st) == IF st.err # "" THEN st ELSE IF ~st.start THEN Write(st, <<B.comma>>) ELSE [st EXCEPT !.start = FALSE]

\* a KeySerializer that writes an integer key as a string of its digits
RECURSIVE KeySerializerDigits(_, _)
KeySerializerDigits(st, key) ==
  CASE key.t = "str" -> [serialize_str([st EXCEPT !.start = FALSE], key.c) EXCEPT !.start = st.start]
    [] key.t = "char" -> [serialize_char([st EXCEPT !.start = FALSE], key.c[1]) EXCEPT !.start = st.start]
    [] key.t \in {"u8", "u16", "u32", "u64", "i8", "i16", "i32", "i64"} -> Write(Write(Write(st, <<B.quote>>), Itoa(key.n)), <<B.quote>>)
    [] key.t = "some" -> KeySerializerDigits(st, key.s[1])
    [] key.t = "newtype" -> KeySerializerDigits(st, key.s[1])
    [] OTHER -> Fail(st, "KeyNotString")

\* a KeySerializer that opens the string of a key before it refuses the key
RECURSIVE KeySerializerOpening(_, _)
KeySerializerOpening(st, key) ==
  CASE key.t = "str" -> [serialize_str([st EXCEPT !.start = FALSE], key.c) EXCEPT !.start = st.start]
    [] key.t = "char" -> [serialize_char([st EXCEPT !.start = FALSE], key.c[1]) EXCEPT !.start = st.start]
    [] key.t = "some" -> KeySerializerOpening(st, key.s[1])
    [] key.t = "newtype" -> KeySerializerOpening(st, key.s[1])
    [] OTHER -> Fail(Write(st, <<B.quote>>), "KeyNotString")

\* KeySerializer: a char or a string, possibly inside Some or a newtype
\* struct, is written by a fresh Serializer on the same output; every other
\* shape is KeyNotString
RECURSIVE KeySerializer(_, _)
KeySerializer(st, key) ==
  CASE key.t = "str" -> [serialize_str([st EXCEPT !.start = FALSE], key.c) EXCEPT !.start = st.start]
    [] key.t = "char" -> [serialize_char([st EXCEPT !.start = FALSE], key.c[1]) EXCEPT !.start = st.start]
    [] key.t = "some" -> KeySerializer(st, key.s[1])
    [] key.t = "newtype" -> KeySerializer(st, key.s[1])
    [] OTHER -> Fail(st, "KeyNotString")

RECURSIVE Serialize(_, _), SerializeElements(_, _, _), SerializeEntries(_, _, _)
\* Serialize::serialize of a value: the Serializer method its type calls
Serialize(st, v) ==
  IF st.err # "" THEN st
  ELSE CASE v.t = "bool" -> serialize_bool(st, v.n = 1)
    [] v.t \in {"i8", "i16", "i32", "i64"} -> serialize_i64(st, v.n)
    [] v.t \in {"u8", "u16", "u32", "u64"} -> serialize_u64(st, v.n)
    [] v.t \in {"f32", "f64"} -> serialize_f64(st, v.c)
    [] v.t = "char" -> serialize_char(st, v.c[1])
    [] v.t = "str" -> serialize_str(st, v.c)
    [] v.t = "bytes" -> Write(SerializeElements(serialize_seq(st), v.s, 1), <<B.rbrack>>)
    [] v.t = "none" -> serialize_none(st)
    [] v.t = "some" -> Serialize(st, v.s[1])
    [] v.t = "unit" -> serialize_unit(st)
    [] v.t = "unit_struct" -> serialize_unit(st)
    [] v.t = "unit_variant" -> serialize_str(st, v.c)
    [] v.t = "newtype" -> Serialize(st, v.s[1])
    [] v.t = "newtype_variant" -> Write(Serialize(VariantOpen(st, v.c), v.s[1]), <<B.rbrace>>)
    [] v.t \in {"seq", "tuple", "tuple_struct"} -> Write(SerializeElements(serialize_seq(st), v.s, 1), <<B.rbrack>>)
    [] v.t = "tuple_variant" -> Write(SerializeElements(serialize_seq(VariantOpen(st, v.c)), v.s, 1), <<B.rbrack, B.rbrace>>)
    [] v.t \in {"map", "struct"} -> Write(SerializeEntries(serialize_map(st), v.s, 1), <<B.rbrace>>)
    [] v.t = "struct_variant" -> Write(SerializeEntries(serialize_map(VariantOpen(st, v.c)), v.s, 1), <<B.rbrace, B.rbrace>>)

\* SerializeSeq::serialize_element for the elements i.. of a sequence
SerializeElements(st, vs, i) ==
  IF i > Len(vs) \/ st.err # "" THEN st
  ELSE SerializeElements(Serialize(Separator(st), vs[i]), vs, i + 1)

\* SerializeMap::serialize_key and serialize_value for the entries i.. of a map
SerializeEntries(st, es, i) ==
  IF i > Len(es) \/ st.err # "" THEN st
  ELSE SerializeEntries(Serialize(Write(KeySerializer(Separator(st), es[i].s[1]), <<B.colon>>), es[i].s[2]), es, i + 1)

\* ser.rs to_string
to_string(v) == Serialize(NewSerializer, v)

(***************************************************************************)
(* Deserializer: the byte cursor.  A cursor is [pos, hold]: the number of  *)
(* bytes read from the reader and the hold register.  Every operation      *)
(* returns the cursor it leaves.                                           *)
(***************************************************************************)

\* Deserializer::new
NewCursor == [pos |-> 0, hold |-> NoByte]

\* the loop of next and peek: read_exact one byte until one is not
\* whitespace; ok is false when the reader is exhausted (Io, UnexpectedEof)
RECURSIVE ReadNonWs(_, _)
ReadNonWs(inp, p) ==
  IF p >= Len(inp) THEN [ok |-> FALSE, b |-> NoByte, pos |-> p]
  ELSE IF IsWhitespace(inp[p + 1]) THEN ReadNonWs(inp, p + 1)
  ELSE [ok |-> TRUE, b |-> inp[p + 1], pos |-> p + 1]

\* next reading the hold without taking it
next_keeping_hold(inp, cur) ==
  IF cur.hold # NoByte THEN [ok |-> TRUE, b |-> cur.hold, cur |-> cur]
  ELSE LET r == ReadNonWs(inp, cur.pos) IN [ok |-> r.ok, b |-> r.b, cur |-> [pos |-> r.pos, hold |-> NoByte]]

\* Deserializer::next
next(inp, cur) ==
  IF cur.hold # NoByte THEN [ok |-> TRUE, b |-> cur.hold, cur |-> [cur EXCEPT !.hold = NoByte]]
  ELSE LET r == ReadNonWs(inp, cur.pos) IN [ok |-> r.ok, b |-> r.b, cur |-> [pos |-> r.pos, hold |-> NoByte]]

\* Deserializer::peek
peek(inp, cur) ==
  IF cur.hold # NoByte THEN [ok |-> TRUE, b |-> cur.hold, cur |-> cur]
  ELSE LET r == ReadNonWs(inp, cur.pos) IN [ok |-> r.ok, b |-> r.b, cur |-> [pos |-> r.pos, hold |-> r.b]]

\* Deserializer::expect_next: e is "" or the Error
expect_next(inp, cur, c) ==
  LET r == next(inp, cur) IN
    [e |-> IF ~r.ok THEN "Io" ELSE IF r.b = c THEN "" ELSE "Unexpected", cur |-> r.cur]

\* input.read_exact(n bytes): straight from the reader, past the hold register
read_exact(inp, cur, n) ==
  IF cur.pos + n > Len(inp) THEN [ok |-> FALSE, bytes |-> <<>>, cur |-> [cur EXCEPT !.pos = Len(inp)]]
  ELSE [ok |-> TRUE, bytes |-> SubSeq(inp, cur.pos + 1, cur.pos + n), cur |-> [cur EXCEPT !.pos = @ + n]]

\* the offset after the first delim at or after offset p, or Len(inp)
RECURSIVE ScanUntil(_, _, _)
ScanUntil(inp, p, delim) ==
  IF p >= Len(inp) THEN Len(inp)
  ELSE IF inp[p + 1] = delim THEN p + 1
  ELSE ScanUntil(inp, p + 1, delim)

\* input.read_until(delim, buf): appends up to and including delim, or up to
\* the end of the input
read_until(inp, cur, delim, buf) ==
  LET q == ScanUntil(inp, cur.pos, delim) IN
    [buf |-> buf \o SubSeq(inp, cur.pos + 1, q), cur |-> [cur EXCEPT !.pos = q]]

\* Deserializer::get_integer: the end of input ends the digits
RECURSIVE get_integer(_, _, _)
get_integer(inp, cur, buf) ==
  LET p == peek(inp, cur) IN
    IF ~p.ok \/ ~IsDigit(p.b) THEN [cur |-> p.cur, buf |-> buf]
    ELSE LET n == next(inp, p.cur) IN get_integer(inp, n.cur, Append(buf, n.b))

\* the decimal digits of the largest magnitude of an integer type: max[k] of
\* its positive values, min[k] of its negative ones (<<>> for an unsigned type)
IntRange == [max |-> [u8 |-> <<2,5,5>>, u16 |-> <<6,5,5,3,5>>, u32 |-> <<4,2,9,4,9,6,7,2,9,5>>, u64 |-> <<1,8,4,4,6,7,4,4,0,7,3,7,0,9,5,5,1,6,1,5>>, i8 |-> <<1,2,7>>, i16 |-> <<3,2,7,6,7>>, i32 |-> <<2,1,4,7,4,8,3,6,4,7>>, i64 |-> <<9,2,2,3,3,7,2,0,3,6,8,5,4,7,7,5,8,0,7>>], min |-> [u8 |-> <<>>, u16 |-> <<>>, u32 |-> <<>>, u64 |-> <<>>, i8 |-> <<1,2,8>>, i16 |-> <<3,2,7,6,8>>, i32 |-> <<2,1,4,7,4,8,3,6,4,8>>, i64 |-> <<9,2,2,3,3,7,2,0,3,6,8,5,4,7,7,5,8,0,8>>]]

\* a run of digits without its leading zeros
RECURSIVE StripZeros(_)
StripZeros(ds) == IF ds # <<>> /\ ds[1] = 0 THEN StripZeros(Tail(ds)) ELSE ds

\* a <= b for two runs of digits without leading zeros
DecLeq(a, b) ==
  \/ Len(a) < Len(b)
  \/ /\ Len(a) = Len(b)
     /\ \/ a = b
        \/ \E i \in 1..Len(a) : a[i] < b[i] /\ \A j \in 1..(i - 1) : a[j] = b[j]

RECURSIVE DecVal(_, _, _)
DecVal(ds, i, acc) == IF i > Len(ds) THEN acc ELSE DecVal(ds, i + 1, acc * 10 + ds[i])

\* str::parse that takes any run of digits, whatever the width of k
ParseIntegerAnyWidth(text, k) ==
  LET signed == text # <<>> /\ text[1] \in {B.minus, B.plus}
      neg == signed /\ text[1] = B.minus
      body == IF signed THEN Tail(text) ELSE text
      good == body # <<>> /\ (\A i \in 1..Len(body) : IsDigit(body[i])) /\ (neg => IntRange.min[k] # <<>>)
      ds == IF good THEN StripZeros([i \in 1..Len(body) |-> body[i] - B.zero]) ELSE <<>>
  IN [ok |-> good, n |-> IF ~good THEN 0 ELSE IF neg THEN 0 - DecVal(ds, 1, 0) ELSE DecVal(ds, 1, 0)]

\* str::parse for the integer type k: an optional sign, then one or more
\* digits, the value inside the range of k; ok is false for a ParseIntError
ParseInteger(text, k) ==
  LET signed == text # <<>> /\ text[1] \in {B.minus, B.plus}
      neg == signed /\ text[1] = B.minus
      body == IF signed THEN Tail(text) ELSE text
      good == body # <<>> /\ (\A i \in 1..Len(body) : IsDigit(body[i])) /\ (neg => IntRange.min[k] # <<>>)
      ds == IF good THEN StripZeros([i \in 1..Len(body) |-> body[i] - B.zero]) ELSE <<>>
      fits == good /\ DecLeq(ds, IF neg THEN IntRange.min[k] ELSE IntRange.max[k])
  IN [ok |-> fits, n |-> IF ~fits THEN 0 ELSE IF neg THEN 0 - DecVal(ds, 1, 0) ELSE DecVal(ds, 1, 0)]

\* Deserializer::parse_int
parse_int(inp, cur, k) ==
  LET p == peek(inp, cur) IN
    IF ~p.ok THEN [e |-> "Io", n |-> 0, cur |-> p.cur]
    ELSE LET c1 == IF p.b = B.minus THEN next(inp, p.cur).cur ELSE p.cur
             g == get_integer(inp, c1, IF p.b = B.minus THEN <<B.minus>> ELSE <<>>)
             r == ParseInteger(g.buf, k)
         IN [e |-> IF r.ok THEN "" ELSE "ParseInt", n |-> r.n, cur |-> g.cur]

\* Deserializer::parse_uint
parse_uint(inp, cur, k) ==
  LET g == get_integer(inp, cur, <<>>)
      r == ParseInteger(g.buf, k)
  IN [e |-> IF r.ok THEN "" ELSE "ParseInt", n |-> r.n, cur |-> g.cur]

\* parse_null comparing the first byte only
parse_null_first_byte(inp, cur) ==
  LET r == IF cur.hold # NoByte THEN read_exact(inp, cur, 3) ELSE read_exact(inp, cur, 4)
      buf == IF cur.hold # NoByte THEN <<cur.hold>> \o r.bytes ELSE r.bytes
  IN [e |-> IF ~r.ok THEN "Io" ELSE IF buf[1] # B.n THEN "Unexpected" ELSE "", cur |-> r.cur]

\* Deserializer::parse_null
parse_null(inp, cur) ==
  LET r == IF cur.hold # NoByte THEN read_exact(inp, cur, 3) ELSE read_exact(inp, cur, 4)
      buf == IF cur.hold # NoByte THEN <<cur.hold>> \o r.bytes ELSE r.bytes
  IN [e |-> IF ~r.ok THEN "Io" ELSE IF buf # NullLit THEN (IF from_utf8(buf).ok THEN "Unexpected" ELSE "Utf8") ELSE "", cur |-> r.cur]

\* Deserializer::parse_byte_buf, the loop: u is what parse_uint returned, p
\* what peek returned, x what expect_next(',') returned
RECURSIVE ByteBufLoop(_, _, _)
ByteBufComma(inp, x, buf) ==
  IF x.e # "" THEN [e |-> x.e, buf |-> buf, cur |-> x.cur]
  ELSE ByteBufLoop(inp, x.cur, buf)

ByteBufPeek(inp, p, buf) ==
  IF ~p.ok THEN [e |-> "Io", buf |-> buf, cur |-> p.cur]
  ELSE IF p.b = B.rbrack THEN [e |-> "", buf |-> buf, cur |-> next(inp, p.cur).cur]
  ELSE ByteBufComma(inp, expect_next(inp, p.cur, B.comma), buf)

ByteBufPush(inp, u, buf) ==
  IF u.e # "" THEN [e |-> u.e, buf |-> buf, cur |-> u.cur]
  ELSE ByteBufPeek(inp, peek(inp, u.cur), Append(buf, u.n))

ByteBufLoop(inp, cur, buf) == ByteBufPush(inp, parse_uint(inp, cur, "u8"), buf)

\* Deserializer::parse_byte_buf
ByteBufOpen(inp, x) ==
  IF x.e # "" THEN [e |-> x.e, buf |-> <<>>, cur |-> x.cur]
  ELSE ByteBufLoop(inp, x.cur, <<>>)

parse_byte_buf(inp, cur) == ByteBufOpen(inp, expect_next(inp, cur, B.lbrack))

(***************************************************************************)
(* Shapes: the type a caller asks for.  A shape is [k, of, names]: its     *)
(* kind, the shapes of its parts and the names of its fields or variants.  *)
(* The shape is also the visitor serde hands to the Deserializer.          *)
(***************************************************************************)

Sh(k, of, names) == [k |-> k, of |-> of, names |-> names]

Prim(k) == Sh(k, <<>>, <<>>)

Opt(sh) == Sh("opt", <<sh>>, <<>>)

Vec(sh) == Sh("seq", <<sh>>, <<>>)

Tuple(shs) == Sh("tuple", shs, <<>>)

HashMap(k, v) == Sh("map", <<k, v>>, <<>>)

Struct(names, shs) == Sh("struct", shs, names)

Newtype(sh) == Sh("newtype", <<sh>>, <<>>)

\* an enum: its variants are the shapes UnitVariant .. StructVariant
Enum(names, variants) == Sh("enum", variants, names)

UnitVariant == Prim("unit_variant")

NewtypeVariant(sh) == Sh("newtype_variant", <<sh>>, <<>>)

TupleVariant(shs) == Sh("tuple_variant", shs, <<>>)

StructVariant(names, shs) == Sh("struct_variant", shs, names)

\* serde's visitors for the name of a struct field, for the name of a
\* variant, and IgnoredAny (the value of a field the struct does not have)
FieldId(names) == Sh("field", <<>>, names)

VariantId(names) == Sh("variant", <<>>, names)

IgnoredAny == Prim("ignored")

VIgnored == Val("ignored", 0, <<>>, <<>>)

\* an identifier: the 1-based index of the field or variant, 0 for a field
\* the struct does not have
VIdent(i) == Val("ident", i, <<>>, <<>>)

UIntKinds == {"u8", "u16", "u32", "u64"}

IntKinds == {"i8", "i16", "i32", "i64"}

\* the Deserializer method that Deserialize::deserialize of a shape calls
Method(sh) ==
  CASE sh.k = "str" -> "string"
    [] sh.k \in {"field", "variant"} -> "identifier"
    [] sh.k = "ignored" -> "ignored_any"
    [] sh.k = "opt" -> "option"
    [] sh.k = "newtype" -> "newtype_struct"
    [] sh.k = "bytes" -> "byte_buf"
    [] OTHER -> sh.k

\* the methods of de.rs that only call another one: forward_to_deserialize_any,
\* deserialize_tuple, deserialize_tuple_struct, deserialize_struct,
\* deserialize_unit_struct
Forward(m) ==
  CASE m \in {"string", "identifier", "ignored_any"} -> "any"
    [] m \in {"tuple", "tuple_struct"} -> "seq"
    [] m = "struct" -> "map"
    [] m = "unit_struct" -> "unit"
    [] OTHER -> m

Idle == [op |-> "idle"]

Done == [op |-> "done"]

\* T::deserialize(&mut de) for the shape sh
Call(sh) == [op |-> "de", m |-> Forward(Method(sh)), vis |-> sh]

Ret(v) == [op |-> "ret", v |-> v]

NoResult == [kind |-> "none", e |-> "", v |-> NoVal]

Ok(v) == [kind |-> "ok", e |-> "", v |-> v]

Err(e) == [kind |-> "err", e |-> e, v |-> NoVal]

Panic == [kind |-> "panic", e |-> "", v |-> NoVal]

\* the index of name in names, or 0
IndexOf(names, name) == IF \E i \in 1..Len(names) : names[i] = name THEN CHOOSE i \in 1..Len(names) : names[i] = name ELSE 0

(***************************************************************************)
(* What serde's visitors answer to the visit_* calls of de.rs              *)
(***************************************************************************)

visit_bool(vis, b) ==
  CASE vis.k = "bool" -> Ok(VBool(b))
    [] vis.k = "ignored" -> Ok(VIgnored)
    [] OTHER -> Err("Message")

visit_unit(vis) ==
  CASE vis.k = "unit" -> Ok(VUnit)
    [] vis.k = "opt" -> Ok(VNone)
    [] vis.k = "ignored" -> Ok(VIgnored)
    [] OTHER -> Err("Message")

visit_str(vis, s) ==
  CASE vis.k = "str" -> Ok(VStr(s))
    [] vis.k = "field" -> Ok(VIdent(IndexOf(vis.names, s)))
    [] vis.k = "variant" -> IF IndexOf(vis.names, s) = 0 THEN Err("Message") ELSE Ok(VIdent(IndexOf(vis.names, s)))
    [] vis.k = "ignored" -> Ok(VIgnored)
    [] OTHER -> Err("Message")

visit_u64(vis, n) ==
  CASE vis.k \in UIntKinds \cup IntKinds -> Ok(VInt(vis.k, n))
    [] vis.k = "field" -> Ok(VIdent(IF n < Len(vis.names) THEN n + 1 ELSE 0))
    [] vis.k = "variant" -> IF n < Len(vis.names) THEN Ok(VIdent(n + 1)) ELSE Err("Message")
    [] vis.k = "ignored" -> Ok(VIgnored)
    [] OTHER -> Err("Message")

visit_i64(vis, n) ==
  CASE vis.k \in UIntKinds \cup IntKinds -> Ok(VInt(vis.k, n))
    [] vis.k = "ignored" -> Ok(VIgnored)
    [] OTHER -> Err("Message")

visit_f64(vis, text) ==
  CASE vis.k \in {"f32", "f64"} -> Ok(Val(vis.k, 0, text, <<>>))
    [] vis.k = "ignored" -> Ok(VIgnored)
    [] OTHER -> Err("Message")

visit_char(vis, c) ==
  CASE vis.k = "char" -> Ok(VChar(c))
    [] OTHER -> Err("Message")

visit_byte_buf(vis, buf) ==
  CASE vis.k = "bytes" -> Ok(Val("bytes", 0, <<>>, [i \in 1..Len(buf) |-> VU8(buf[i])]))
    [] OTHER -> Err("Message")

\* visit_enum on the deserializer of a bare string: only a unit variant
visit_enum_str(vis, s) ==
  LET i == IndexOf(vis.names, s) IN
    IF i = 0 \/ vis.of[i].k # "unit_variant" THEN Err("Message") ELSE Ok(VUnitVariant(s))

(***************************************************************************)
(* Number scanning                                                         *)
(***************************************************************************)

\* the scan of a number: e the Error so far, cur the cursor, text the bytes
\* collected, signed and float the two flags of parse_number
ScanStart(cur) == [e |-> "", cur |-> cur, text |-> <<>>, signed |-> FALSE, float |-> FALSE]

\* string += get_integer(vec![next()]) (or get_integer(buf) when the byte
\* peeked is not consumed)
ScanDigits(inp, sc, consumed) ==
  LET g == get_integer(inp, IF consumed = <<>> THEN sc.cur ELSE next(inp, sc.cur).cur, consumed) IN
    [sc EXCEPT !.cur = g.cur, !.text = @ \o g.buf]

\* if self.peek()? == b'-' { signed = true; buf.push(self.next()?) }, then
\* get_integer(buf)
ScanSign(inp, sc, p) ==
  IF ~p.ok THEN [sc EXCEPT !.e = "Io", !.cur = p.cur]
  ELSE IF p.b = B.minus THEN ScanDigits(inp, [sc EXCEPT !.cur = p.cur, !.signed = TRUE], <<p.b>>)
  ELSE ScanDigits(inp, [sc EXCEPT !.cur = p.cur], <<>>)

\* if self.peek()? is one of marks { float = true; string += get_integer(..) }
ScanPart(inp, sc, p, marks) ==
  IF sc.e # "" THEN sc
  ELSE IF ~p.ok THEN [sc EXCEPT !.e = "Io", !.cur = p.cur]
  ELSE IF p.b \in marks THEN ScanDigits(inp, [sc EXCEPT !.cur = p.cur, !.float = TRUE], <<p.b>>)
  ELSE [sc EXCEPT !.cur = p.cur]

ScanFraction(inp, sc) == ScanPart(inp, sc, peek(inp, sc.cur), {B.dot})

ScanExponent(inp, sc) == ScanPart(inp, sc, peek(inp, sc.cur), {B.e, B.upE})

\* the scan of parse_number and parse_float: sign and integer part, fraction,
\* exponent
ScanNumber(inp, cur) == ScanExponent(inp, ScanFraction(inp, ScanSign(inp, ScanStart(cur), peek(inp, cur))))

\* the number of leading digits of text from position i on
RECURSIVE DigitRun(_, _)
DigitRun(text, i) == IF i <= Len(text) /\ IsDigit(text[i]) THEN 1 + DigitRun(text, i + 1) ELSE 0

\* str::parse::<f64> on a text made of digits, a leading `-`, `.` and `e`:
\* digits before or after the `.`, and digits after the `e`
ParseFloatOk(text) ==
  LET i0 == IF text # <<>> /\ text[1] = B.minus THEN 2 ELSE 1
      n1 == DigitRun(text, i0)
      i1 == i0 + n1
      dot == i1 <= Len(text) /\ text[i1] = B.dot
      n2 == IF dot THEN DigitRun(text, i1 + 1) ELSE 0
      i2 == IF dot THEN i1 + 1 + n2 ELSE i1
      ex == i2 <= Len(text) /\ text[i2] \in {B.e, B.upE}
      n3 == IF ex THEN DigitRun(text, i2 + 1) ELSE 0
  IN n1 + n2 >= 1 /\ (ex => n3 >= 1) /\ (IF ex THEN i2 + n3 ELSE i2 - 1) = Len(text)

\* the end of parse_number with an integer that does not fit handed on as a
\* float
ClassifyFallback(sc) ==
  LET class == IF sc.float THEN "f64" ELSE IF sc.signed THEN "i64" ELSE "u64"
      int == ParseInteger(sc.text, class)
  IN IF sc.e # "" THEN [e |-> sc.e, class |-> class, text |-> sc.text, n |-> 0, cur |-> sc.cur]
     ELSE IF sc.float \/ ~int.ok THEN [e |-> IF ParseFloatOk(sc.text) THEN "" ELSE "ParseFloat", class |-> "f64", text |-> sc.text, n |-> 0, cur |-> sc.cur]
     ELSE [e |-> "", class |-> class, text |-> sc.text, n |-> int.n, cur |-> sc.cur]

\* the end of parse_number: class is the visit_* the text goes to, n the
\* integer; a float is held as its text
Classify(sc) ==
  LET class == IF sc.float THEN "f64" ELSE IF sc.signed THEN "i64" ELSE "u64"
      int == ParseInteger(sc.text, class)
  IN IF sc.e # "" THEN [e |-> sc.e, class |-> class, text |-> sc.text, n |-> 0, cur |-> sc.cur]
     ELSE IF sc.float THEN [e |-> IF ParseFloatOk(sc.text) THEN "" ELSE "ParseFloat", class |-> class, text |-> sc.text, n |-> 0, cur |-> sc.cur]
     ELSE [e |-> IF int.ok THEN "" ELSE "ParseInt", class |-> class, text |-> sc.text, n |-> int.n, cur |-> sc.cur]

\* Deserializer::parse_number
parse_number(inp, cur) == Classify(ScanNumber(inp, cur))

\* the end of parse_float: string.parse() of what was scanned
ParseFloat(sc) == [e |-> IF sc.e # "" THEN sc.e ELSE IF ParseFloatOk(sc.text) THEN "" ELSE "ParseFloat", text |-> sc.text, cur |-> sc.cur]

\* Deserializer::parse_float
parse_float(inp, cur) == ParseFloat(ScanNumber(inp, cur))

(***************************************************************************)
(* The Deserializer as a machine                                           *)
(***************************************************************************)

Cur == [pos |-> pos, hold |-> hold]

Top == stack[Len(stack)]

Pop == SubSeq(stack, 1, Len(stack) - 1)

\* the call goes on: the cursor as left, the next control point, the stack
Goto(cur, c, st) ==
  /\ pos' = cur.pos
  /\ hold' = cur.hold
  /\ ctl' = c
  /\ stack' = st
  /\ UNCHANGED <<value, shape, gap, output, input, result, first, pc>>

\* the call ends: from_str returns r (`?` hands an error straight to the caller)
Finish(cur, r) ==
  /\ pos' = cur.pos
  /\ hold' = cur.hold
  /\ ctl' = Done
  /\ stack' = <<>>
  /\ result' = r
  /\ UNCHANGED <<value, shape, gap, output, input, first, pc>>

\* a visitor's answer r goes back to the caller of the deserialize method
Deliver(cur, r) == IF r.kind = "ok" THEN Goto(cur, Ret(r.v), stack) ELSE Finish(cur, r)

Calling(m) == ctl.op = "de" /\ ctl.m = m

\* the start of parse_string: expect_next('"'), then the loop; to says who
\* called it (deserialize_str, deserialize_char, deserialize_enum)
ParseStringStart(cur, to) ==
  LET x == expect_next(input, cur, B.quote) IN
    IF x.e # "" THEN Finish(x.cur, Err(x.e))
    ELSE Goto(x.cur, [op |-> "read", buf |-> <<>>, to |-> to, vis |-> ctl.vis], stack)

\* de.rs from_str: Deserializer::new, then T::deserialize
from_str ==
  /\ pc \in {"parse", "reparse"}
  /\ ctl.op = "idle"
  /\ Goto(NewCursor, Call(shape), <<>>)

\* from_str returns the value of T::deserialize
from_str_return ==
  /\ ctl.op = "ret"
  /\ stack = <<>>
  /\ Finish(Cur, Ok(ctl.v))

\* deserialize_any taking `+` too for the start of a number
deserialize_any_plus ==
  /\ Calling("any")
  /\ LET p == peek(input, Cur) IN
       IF ~p.ok THEN Finish(p.cur, Err("Io"))
       ELSE CASE p.b = B.quote -> Goto(p.cur, [ctl EXCEPT !.m = "str"], stack)
         [] p.b = B.lbrack -> Goto(p.cur, [ctl EXCEPT !.m = "seq"], stack)
         [] p.b = B.lbrace -> Goto(p.cur, [ctl EXCEPT !.m = "map"], stack)
         [] p.b = B.n -> Goto(p.cur, [ctl EXCEPT !.m = "unit"], stack)
         [] p.b \in {B.t, B.f} -> Goto(p.cur, [ctl EXCEPT !.m = "bool"], stack)
         [] p.b \in {B.minus, B.plus} \/ IsDigit(p.b) -> Goto(p.cur, [ctl EXCEPT !.m = "number"], stack)
         [] OTHER -> Finish(p.cur, Err("Unexpected"))

\* Deserializer::deserialize_any
deserialize_any ==
  /\ Calling("any")
  /\ LET p == peek(input, Cur) IN
       IF ~p.ok THEN Finish(p.cur, Err("Io"))
       ELSE CASE p.b = B.quote -> Goto(p.cur, [ctl EXCEPT !.m = "str"], stack)
         [] p.b = B.lbrack -> Goto(p.cur, [ctl EXCEPT !.m = "seq"], stack)
         [] p.b = B.lbrace -> Goto(p.cur, [ctl EXCEPT !.m = "map"], stack)
         [] p.b = B.n -> Goto(p.cur, [ctl EXCEPT !.m = "unit"], stack)
         [] p.b \in {B.t, B.f} -> Goto(p.cur, [ctl EXCEPT !.m = "bool"], stack)
         [] p.b = B.minus \/ IsDigit(p.b) -> Goto(p.cur, [ctl EXCEPT !.m = "number"], stack)
         [] OTHER -> Finish(p.cur, Err("Unexpected"))

\* the parse_number arm of deserialize_any
deserialize_number ==
  /\ Calling("number")
  /\ LET r == parse_number(input, Cur) IN
       IF r.e # "" THEN Finish(r.cur, Err(r.e))
       ELSE CASE r.class = "f64" -> Deliver(r.cur, visit_f64(ctl.vis, r.text))
         [] r.class = "i64" -> Deliver(r.cur, visit_i64(ctl.vis, r.n))
         [] r.class = "u64" -> Deliver(r.cur, visit_u64(ctl.vis, r.n))

deserialize_str ==
  /\ Calling("str")
  /\ ParseStringStart(Cur, "str")

deserialize_char ==
  /\ Calling("char")
  /\ ParseStringStart(Cur, "char")

\* parse_string, the first statement of the loop: read_until(b'"')
parse_string_read ==
  /\ ctl.op = "read"
  /\ LET r == read_until(input, Cur, B.quote, ctl.buf) IN
       Goto(r.cur, [ctl EXCEPT !.op = "check", !.buf = r.buf], stack)

\* what the caller of parse_string does with the String s
AfterParseString(cur, s) ==
  CASE ctl.to = "str" -> Deliver(cur, visit_str(ctl.vis, s))
    [] ctl.to = "char" -> IF Len(Utf8Encode(s)) # 1 THEN Finish(cur, Err("Unexpected")) ELSE Deliver(cur, visit_char(ctl.vis, s[1]))
    [] ctl.to = "enum" -> Deliver(cur, visit_enum_str(ctl.vis, s))

\* parse_string, the rest of the loop body and what follows the loop
parse_string_check ==
  /\ ctl.op = "check"
  /\ LET buf == ctl.buf
         len == Len(buf)
         check_index == IF len < 3 THEN len - 1 ELSE len - 2
     IN IF buf = <<>> \/ Last(buf) # B.quote THEN Finish(Cur, Err("Unclosed_quote"))
        ELSE IF buf[check_index + 1] = B.bslash THEN Goto(Cur, [ctl EXCEPT !.op = "read"], stack)
        ELSE LET s == from_utf8(buf)
                 u == unescape(SubSeq(s.chars, 1, Len(s.chars) - 1))
             IN IF ~s.ok THEN Finish(Cur, Err("Utf8"))
                ELSE IF u.kind = "panic" THEN Finish(Cur, Panic)
                ELSE IF u.kind = "err" THEN Finish(Cur, Err(u.e))
                ELSE AfterParseString(Cur, u.s)

deserialize_bool ==
  /\ Calling("bool")
  /\ LET p == peek(input, Cur)
         lit == IF p.b = B.t THEN TrueLit ELSE FalseLit
         r == read_exact(input, p.cur, Len(lit) - 1)
         buf == <<p.b>> \o r.bytes
     IN IF ~p.ok THEN Finish(p.cur, Err("Io"))
        ELSE IF p.b \notin {B.t, B.f} THEN Finish(p.cur, Err("Unexpected"))
        ELSE IF ~r.ok THEN Finish(r.cur, Err("Io"))
        ELSE IF buf = lit THEN Deliver(r.cur, visit_bool(ctl.vis, p.b = B.t))
        ELSE Finish(r.cur, Err(IF from_utf8(buf).ok THEN "Unexpected" ELSE "Utf8"))

deserialize_unit ==
  /\ Calling("unit")
  /\ LET r == parse_null(input, Cur) IN
       IF r.e # "" THEN Finish(r.cur, Err(r.e)) ELSE Deliver(r.cur, visit_unit(ctl.vis))

\* deserialize_u8, deserialize_u16, deserialize_u32, deserialize_u64
deserialize_uint ==
  /\ ctl.op = "de" /\ ctl.m \in UIntKinds
  /\ LET r == parse_uint(input, Cur, ctl.m) IN
       IF r.e # "" THEN Finish(r.cur, Err(r.e)) ELSE Deliver(r.cur, visit_u64(ctl.vis, r.n))

\* deserialize_i8, deserialize_i16, deserialize_i32, deserialize_i64
deserialize_int ==
  /\ ctl.op = "de" /\ ctl.m \in IntKinds
  /\ LET r == parse_int(input, Cur, ctl.m) IN
       IF r.e # "" THEN Finish(r.cur, Err(r.e)) ELSE Deliver(r.cur, visit_i64(ctl.vis, r.n))

\* deserialize_f32, deserialize_f64
deserialize_float ==
  /\ ctl.op = "de" /\ ctl.m \in {"f32", "f64"}
  /\ LET r == parse_float(input, Cur) IN
       IF r.e # "" THEN Finish(r.cur, Err(r.e)) ELSE Deliver(r.cur, visit_f64(ctl.vis, r.text))

deserialize_byte_buf ==
  /\ Calling("byte_buf")
  /\ LET r == parse_byte_buf(input, Cur) IN
       IF r.e # "" THEN Finish(r.cur, Err(r.e)) ELSE Deliver(r.cur, visit_byte_buf(ctl.vis, r.buf))

\* deserialize_option taking the byte it looks at out of the hold before it
\* hands over to the contained type
deserialize_option_consuming ==
  /\ Calling("option")
  /\ LET p == peek(input, Cur)
         r == parse_null(input, p.cur)
     IN IF ~p.ok THEN Finish(p.cur, Err("Io"))
        ELSE IF p.b = B.n THEN (IF r.e # "" THEN Finish(r.cur, Err(r.e)) ELSE Goto(r.cur, Ret(VNone), stack))
        ELSE Goto(next(input, p.cur).cur, Call(ctl.vis.of[1]), Append(stack, [f |-> "some"]))

\* visit_none, or visit_some(self): the Option visitor deserializes the
\* contained type
deserialize_option ==
  /\ Calling("option")
  /\ LET p == peek(input, Cur)
         r == parse_null(input, p.cur)
     IN IF ~p.ok THEN Finish(p.cur, Err("Io"))
        ELSE IF p.b = B.n THEN (IF r.e # "" THEN Finish(r.cur, Err(r.e)) ELSE Goto(r.cur, Ret(VNone), stack))
        ELSE Goto(p.cur, Call(ctl.vis.of[1]), Append(stack, [f |-> "some"]))

\* visit_newtype_struct(self): the visitor deserializes the contained type
deserialize_newtype_struct ==
  /\ Calling("newtype_struct")
  /\ Goto(Cur, Call(ctl.vis.of[1]), Append(stack, [f |-> "newtype"]))

\* the contained value comes back to the Option or newtype visitor
visit_wrapped ==
  /\ ctl.op = "ret"
  /\ stack # <<>>
  /\ Top.f \in {"some", "newtype"}
  /\ Goto(Cur, Ret(IF Top.f = "some" THEN VSome(ctl.v) ELSE VNewtype(ctl.v)), Pop)

(***************************************************************************)
(* Sequence and map cursors (CommaSeparated) and their visitors.  A frame  *)
(* of the stack is one visitor waiting for a value: f names it, vis is its *)
(* shape, start is CommaSeparated::start, acc what it has collected.       *)
(***************************************************************************)

\* the visitors that take visit_seq: Vec, tuples (which pull once per
\* element and never again) and IgnoredAny
SeqVisitors == {"seq", "tuple", "tuple_variant", "ignored"}

\* the visitors that take visit_map: HashMap, derived structs and IgnoredAny
MapVisitors == {"map", "struct", "struct_variant", "ignored"}

FixedLen(vis) == vis.k \in {"tuple", "tuple_variant"}

\* the visitor of a sequence after it has got acc: a tuple that has all its
\* elements returns, every other visitor calls next_element
SeqVisitorStep(cur, fr, st) ==
  IF FixedLen(fr.vis) /\ Len(fr.acc) = Len(fr.vis.of) THEN Goto(cur, Ret(VTuple(fr.acc)), st)
  ELSE Goto(cur, [op |-> "elem"], Append(st, fr))

\* the seed of the next element
ElementShape(fr) ==
  CASE fr.vis.k = "seq" -> fr.vis.of[1]
    [] FixedLen(fr.vis) -> fr.vis.of[Len(fr.acc) + 1]
    [] OTHER -> IgnoredAny

\* the visitor is told that the sequence is exhausted
SeqVisitorEnd(fr) ==
  CASE fr.vis.k = "seq" -> Ok(VSeq(fr.acc))
    [] fr.vis.k = "ignored" -> Ok(VIgnored)
    [] OTHER -> Err("Message")

\* deserialize_seq (and deserialize_tuple, deserialize_tuple_struct,
\* Enum::tuple_variant, which call it): expect_next('['), then
\* visitor.visit_seq(CommaSeparated::new(self))
deserialize_seq ==
  /\ Calling("seq")
  /\ LET x == expect_next(input, Cur, B.lbrack) IN
       IF x.e # "" THEN Finish(x.cur, Err(x.e))
       ELSE IF ctl.vis.k \notin SeqVisitors THEN Finish(x.cur, Err("Message"))
       ELSE SeqVisitorStep(x.cur, [f |-> "seq", vis |-> ctl.vis, start |-> TRUE, acc |-> <<>>], stack)

\* SeqAccess::next_element_seed
next_element_seed ==
  /\ ctl.op = "elem"
  /\ LET fr == Top
         p == peek(input, Cur)
         x == IF fr.start THEN [e |-> "", cur |-> p.cur] ELSE expect_next(input, p.cur, B.comma)
     IN IF ~p.ok THEN Finish(p.cur, Err("Io"))
        ELSE IF p.b = B.rbrack THEN
          (IF SeqVisitorEnd(fr).kind = "ok" THEN Goto(next(input, p.cur).cur, Ret(SeqVisitorEnd(fr).v), Pop)
           ELSE Finish(next(input, p.cur).cur, SeqVisitorEnd(fr)))
        ELSE IF x.e # "" THEN Finish(x.cur, Err(x.e))
        ELSE Goto(x.cur, Call(ElementShape(fr)), Append(Pop, [fr EXCEPT !.start = FALSE]))

\* next_element_seed returns Some(element) to the visitor of the sequence
visit_seq ==
  /\ ctl.op = "ret"
  /\ stack # <<>>
  /\ Top.f = "seq"
  /\ SeqVisitorStep(Cur, [Top EXCEPT !.acc = Append(@, ctl.v)], Pop)

\* deserialize_map (and deserialize_struct, Enum::struct_variant, which call
\* it): expect_next('{'), then visitor.visit_map(CommaSeparated::new(self))
deserialize_map ==
  /\ Calling("map")
  /\ LET x == expect_next(input, Cur, B.lbrace) IN
       IF x.e # "" THEN Finish(x.cur, Err(x.e))
       ELSE IF ctl.vis.k \notin MapVisitors THEN Finish(x.cur, Err("Message"))
       ELSE Goto(x.cur, [op |-> "key"], Append(stack, [f |-> "map", vis |-> ctl.vis, start |-> TRUE, acc |-> <<>>, key |-> NoVal]))

IsStruct(vis) == vis.k \in {"struct", "struct_variant"}

KeyShape(vis) ==
  CASE vis.k = "map" -> vis.of[1]
    [] IsStruct(vis) -> FieldId(vis.names)
    [] OTHER -> IgnoredAny

ValueShape(vis, key) ==
  CASE vis.k = "map" -> vis.of[2]
    [] IsStruct(vis) /\ key.n > 0 -> vis.of[key.n]
    [] OTHER -> IgnoredAny

HasKey(acc, key) == \E i \in 1..Len(acc) : acc[i].s[1] = key

ValueOf(acc, key) == acc[CHOOSE i \in 1..Len(acc) : acc[i].s[1] = key].s[2]

\* HashMap::insert keeps one entry per key
Insert(acc, key, v) ==
  IF HasKey(acc, key) THEN [i \in 1..Len(acc) |-> IF acc[i].s[1] = key THEN VEntry(key, v) ELSE acc[i]]
  ELSE Append(acc, VEntry(key, v))

\* the field i of a derived struct once the map is exhausted: a missing field
\* is None for an Option and an error for every other type
FieldValue(vis, acc, i) ==
  IF HasKey(acc, VIdent(i)) THEN ValueOf(acc, VIdent(i))
  ELSE IF vis.of[i].k = "opt" THEN VNone
  ELSE NoVal

\* the visitor is told that the map is exhausted
MapVisitorEnd(fr) ==
  CASE fr.vis.k = "map" -> Ok(VMap(fr.acc))
    [] IsStruct(fr.vis) ->
         IF \E i \in 1..Len(fr.vis.of) : FieldValue(fr.vis, fr.acc, i) = NoVal THEN Err("Message")
         ELSE Ok(VStruct([i \in 1..Len(fr.vis.of) |-> VEntry(VStr(fr.vis.names[i]), FieldValue(fr.vis, fr.acc, i))]))
    [] OTHER -> Ok(VIgnored)

\* next_key_seed asking for no `,` between two entries
next_key_seed_no_comma ==
  /\ ctl.op = "key"
  /\ LET fr == Top
         p == peek(input, Cur)
     IN IF ~p.ok THEN Finish(p.cur, Err("Io"))
        ELSE IF p.b = B.rbrace THEN
          (IF MapVisitorEnd(fr).kind = "ok" THEN Goto(next(input, p.cur).cur, Ret(MapVisitorEnd(fr).v), Pop)
           ELSE Finish(next(input, p.cur).cur, MapVisitorEnd(fr)))
        ELSE Goto(p.cur, Call(KeyShape(fr.vis)), Append(Pop, [fr EXCEPT !.start = FALSE, !.key = NoVal]))

\* MapAccess::next_key_seed
next_key_seed ==
  /\ ctl.op = "key"
  /\ LET fr == Top
         p == peek(input, Cur)
         x == IF fr.start THEN [e |-> "", cur |-> p.cur] ELSE expect_next(input, p.cur, B.comma)
     IN IF ~p.ok THEN Finish(p.cur, Err("Io"))
        ELSE IF p.b = B.rbrace THEN
          (IF MapVisitorEnd(fr).kind = "ok" THEN Goto(next(input, p.cur).cur, Ret(MapVisitorEnd(fr).v), Pop)
           ELSE Finish(next(input, p.cur).cur, MapVisitorEnd(fr)))
        ELSE IF x.e # "" THEN Finish(x.cur, Err(x.e))
        ELSE Goto(x.cur, Call(KeyShape(fr.vis)), Append(Pop, [fr EXCEPT !.start = FALSE, !.key = NoVal]))

\* next_key_seed returns Some(key) to the visitor of the map, which calls
\* next_value (a derived struct refuses a field it has already got)
visit_map_key ==
  /\ ctl.op = "ret"
  /\ stack # <<>>
  /\ Top.f = "map"
  /\ Top.key = NoVal
  /\ IF IsStruct(Top.vis) /\ ctl.v.n > 0 /\ HasKey(Top.acc, ctl.v) THEN Finish(Cur, Err("Message"))
     ELSE Goto(Cur, [op |-> "value"], Append(Pop, [Top EXCEPT !.key = ctl.v]))

\* MapAccess::next_value_seed
next_value_seed ==
  /\ ctl.op = "value"
  /\ LET x == expect_next(input, Cur, B.colon) IN
       IF x.e # "" THEN Finish(x.cur, Err(x.e))
       ELSE Goto(x.cur, Call(ValueShape(Top.vis, Top.key)), stack)

\* next_value_seed returns the value to the visitor of the map, which calls
\* next_key
visit_map_value ==
  /\ ctl.op = "ret"
  /\ stack # <<>>
  /\ Top.f = "map"
  /\ Top.key # NoVal
  /\ LET acc == CASE Top.vis.k = "map" -> Insert(Top.acc, Top.key, ctl.v)
                  [] IsStruct(Top.vis) /\ Top.key.n > 0 -> Append(Top.acc, VEntry(Top.key, ctl.v))
                  [] OTHER -> Top.acc
     IN Goto(Cur, [op |-> "key"], Append(Pop, [Top EXCEPT !.acc = acc, !.key = NoVal]))

(***************************************************************************)
(* Enums                                                                   *)
(***************************************************************************)

\* deserialize_enum up to visit_enum: a bare string is a unit variant, `{`
\* opens {"Variant":payload} and the visitor asks Enum for the variant
deserialize_enum ==
  /\ Calling("enum")
  /\ LET p == peek(input, Cur) IN
       IF ~p.ok THEN Finish(p.cur, Err("Io"))
       ELSE IF p.b = B.quote THEN ParseStringStart(p.cur, "enum")
       ELSE IF p.b = B.lbrace THEN Goto(next(input, p.cur).cur, Call(VariantId(ctl.vis.names)), Append(stack, [f |-> "enum", vis |-> ctl.vis, at |-> 0]))
       ELSE Finish(p.cur, Err("Unexpected"))

\* Enum::variant_seed after the seed has the variant's name: expect_next(':'),
\* then the visitor asks for the payload through unit_variant,
\* newtype_variant_seed, tuple_variant or struct_variant
variant_seed ==
  /\ ctl.op = "ret"
  /\ stack # <<>>
  /\ Top.f = "enum"
  /\ Top.at = 0
  /\ LET x == expect_next(input, Cur, B.colon)
         variant == Top.vis.of[ctl.v.n]
         st == Append(Pop, [Top EXCEPT !.at = ctl.v.n])
     IN IF x.e # "" THEN Finish(x.cur, Err(x.e))
        ELSE CASE variant.k = "unit_variant" -> Finish(x.cur, Err("Message"))
          [] variant.k = "newtype_variant" -> Goto(x.cur, Call(variant.of[1]), st)
          [] variant.k = "tuple_variant" -> Goto(x.cur, [op |-> "de", m |-> "seq", vis |-> variant], st)
          [] variant.k = "struct_variant" -> Goto(x.cur, [op |-> "de", m |-> "map", vis |-> variant], st)

\* the payload v as a value of the variant
VariantValue(name, variant, v) ==
  CASE variant.k = "newtype_variant" -> VNewtypeVariant(name, v)
    [] variant.k = "tuple_variant" -> VTupleVariant(name, v.s)
    [] variant.k = "struct_variant" -> VStructVariant(name, v.s)

\* deserialize_enum after visit_enum: the closing `}`
deserialize_enum_end ==
  /\ ctl.op = "ret"
  /\ stack # <<>>
  /\ Top.f = "enum"
  /\ Top.at > 0
  /\ LET x == expect_next(input, Cur, B.rbrace) IN
       IF x.e # "" THEN Finish(x.cur, Err("Unclosed_brace"))
       ELSE Goto(x.cur, Ret(VariantValue(Top.vis.names[Top.at], Top.vis.of[Top.at], ctl.v)), Pop)

(***************************************************************************)
(* The callers: the values that are rendered and parsed back, the texts    *)
(* that are parsed, and the whitespace put between two tokens of a text    *)
(***************************************************************************)

MaxSeqLen == 2

MaxStrLen == 2

MaxTextLen == 3

SeqsUpTo(S, n) == UNION {[1..k -> S] : k \in 0..n}

\* the characters of the strings: a letter, the two characters escape
\* doubles, a control character with a short escape, one with a \u escape,
\* and one that takes two bytes
Chars == {B.a, B.quote, B.bslash, B.lf, 15, 233}

Name(c) == <<c>>

\* the characters rendered one by one: every control character, the
\* characters around `"` and `\`, letters that follow `\` in an escape, DEL
\* and a character that takes two bytes
CodecChars == 0..35 \cup {47, B.bslash, 93, B.a, B.b, B.n, B.u, 127, 233}

U8s == {VU8(n) : n \in {0, 7, 10, 255}}

Bools == {VBool(TRUE), VBool(FALSE)}

\* 1.5 and -7.0 as f64::to_string writes them
Floats == {Val("f64", 0, <<49, B.dot, 53>>, <<>>), Val("f64", 0, <<B.minus, 55>>, <<>>)}

Strs == {VStr(s) : s \in SeqsUpTo(Chars, MaxStrLen)}

\* the parts of the nested values
Parts == {VU8(1), VU8(23)}

Flags == {VBool(TRUE), VBool(FALSE)}

Pairs == {VTuple(<<x, y>>) : x \in Parts, y \in Parts}

Case(sh, v) == [sh |-> sh, v |-> v, text |-> <<>>]

Cases(sh, vs) == {Case(sh, v) : v \in vs}

Seqs(S) == {VSeq(s) : s \in SeqsUpTo(S, MaxSeqLen)}

\* enum Shape { U, N(u8), T(u8, u8), S { a: u8 } }
TestEnum == Enum(<<Name(85), Name(78), Name(84), Name(83)>>, <<UnitVariant, NewtypeVariant(Prim("u8")), TupleVariant(<<Prim("u8"), Prim("u8")>>), StructVariant(<<Name(B.a)>>, <<Prim("u8")>>)>>)

TestEnumValues == {VUnitVariant(Name(85))} \cup {VNewtypeVariant(Name(78), x) : x \in Parts} \cup {VTupleVariant(Name(84), <<x, y>>) : x \in Parts, y \in Parts} \cup {VStructVariant(Name(83), <<VEntry(VStr(Name(B.a)), x)>>) : x \in Parts}

\* enum Flag { N(bool), S { a: bool } }
FlagEnum == Enum(<<Name(78), Name(83)>>, <<NewtypeVariant(Prim("bool")), StructVariant(<<Name(B.a)>>, <<Prim("bool")>>)>>)

FlagEnumValues == {VNewtypeVariant(Name(78), VBool(TRUE)), VStructVariant(Name(83), <<VEntry(VStr(Name(B.a)), VBool(FALSE))>>)}

\* struct Test { a: u8, b: bool }
TestStruct == Struct(<<Name(B.a), Name(B.b)>>, <<Prim("u8"), Prim("bool")>>)

TestStructValues == {VStruct(<<VEntry(VStr(Name(B.a)), x), VEntry(VStr(Name(B.b)), y)>>) : x \in Parts, y \in Flags}

\* struct Point { a: u8, b: u8 }
Point == Struct(<<Name(B.a), Name(B.b)>>, <<Prim("u8"), Prim("u8")>>)

PointValues == {VStruct(<<VEntry(VStr(Name(B.a)), x), VEntry(VStr(Name(B.b)), y)>>) : x \in Parts, y \in Parts}

\* maps with distinct keys, in the order they are iterated
Maps(K, V) == {VMap(<<>>)} \cup {VMap(<<VEntry(k, v)>>) : k \in K, v \in V} \cup {VMap(<<VEntry(k1, v1), VEntry(k2, v2)>>) : k1 \in K, k2 \in K, v1 \in V, v2 \in V}

Keys == {VStr(Name(B.a)), VStr(Name(B.b))}

VBytes(bs) == Val("bytes", 0, <<>>, [i \in 1..Len(bs) |-> VU8(bs[i])])

\* enum Unit { U }
UnitEnum == Enum(<<Name(85)>>, <<UnitVariant>>)

\* the key types of the maps that are rendered, each with two of its values
KeyTypes == {
  [sh |-> Prim("str"), a |-> VStr(Name(B.a)), b |-> VStr(Name(B.b))],
  [sh |-> Prim("char"), a |-> VChar(B.a), b |-> VChar(B.b)],
  [sh |-> Opt(Prim("str")), a |-> VSome(VStr(Name(B.a))), b |-> VNone],
  [sh |-> Newtype(Prim("str")), a |-> VNewtype(VStr(Name(B.a))), b |-> VNewtype(VStr(Name(B.b)))],
  [sh |-> Opt(Newtype(Prim("char"))), a |-> VSome(VNewtype(VChar(B.a))), b |-> VSome(VNewtype(VChar(B.b)))],
  [sh |-> Prim("bool"), a |-> VBool(TRUE), b |-> VBool(FALSE)],
  [sh |-> Prim("u8"), a |-> VU8(1), b |-> VU8(23)],
  [sh |-> Prim("i64"), a |-> VInt("i64", 0 - 1), b |-> VInt("i64", 5)],
  [sh |-> Prim("f64"), a |-> Val("f64", 0, <<49, B.dot, 53>>, <<>>), b |-> Val("f64", 0, <<50>>, <<>>)],
  [sh |-> Prim("bytes"), a |-> VBytes(<<1>>), b |-> VBytes(<<>>)],
  [sh |-> Prim("unit"), a |-> VUnit, b |-> VUnit],
  [sh |-> Opt(Prim("u8")), a |-> VSome(VU8(1)), b |-> VNone],
  [sh |-> Newtype(Prim("u8")), a |-> VNewtype(VU8(1)), b |-> VNewtype(VU8(23))],
  [sh |-> UnitEnum, a |-> VUnitVariant(Name(85)), b |-> VUnitVariant(Name(85))],
  [sh |-> TestEnum, a |-> VNewtypeVariant(Name(78), VU8(1)), b |-> VTupleVariant(Name(84), <<VU8(1), VU8(1)>>)],
  [sh |-> Vec(Prim("u8")), a |-> VSeq(<<>>), b |-> VSeq(<<VU8(1)>>)],
  [sh |-> Tuple(<<Prim("u8"), Prim("u8")>>), a |-> VTuple(<<VU8(1), VU8(1)>>), b |-> VTuple(<<VU8(1), VU8(23)>>)],
  [sh |-> HashMap(Prim("str"), Prim("u8")), a |-> VMap(<<>>), b |-> VMap(<<VEntry(VStr(Name(B.a)), VU8(1))>>)],
  [sh |-> TestStruct, a |-> VStruct(<<VEntry(VStr(Name(B.a)), VU8(1)), VEntry(VStr(Name(B.b)), VBool(TRUE))>>), b |-> VStruct(<<VEntry(VStr(Name(B.a)), VU8(23)), VEntry(VStr(Name(B.b)), VBool(TRUE))>>)]}

\* the maps of a key type: no entry, one entry, two entries with distinct keys
KeyedMaps(kt) ==
  {VMap(<<>>), VMap(<<VEntry(kt.a, VU8(1))>>), VMap(<<VEntry(kt.b, VU8(1))>>)}
    \cup (IF kt.a = kt.b THEN {} ELSE {VMap(<<VEntry(kt.a, VU8(1)), VEntry(kt.b, VU8(23))>>), VMap(<<VEntry(kt.b, VU8(1)), VEntry(kt.a, VU8(23))>>)})

\* the values rendered by to_string and parsed back by from_str
Values ==
  Cases(Prim("bool"), Bools) \cup Cases(Prim("u8"), U8s) \cup Cases(Prim("str"), Strs)
    \cup Cases(Prim("i8"), {VInt("i8", 0 - 7), VInt("i8", 5)})
    \cup Cases(Prim("char"), {VChar(c) : c \in CodecChars})
    \cup Cases(Prim("f64"), Floats)
    \cup Cases(Vec(Prim("f64")), Seqs(Floats))
    \cup Cases(Prim("bytes"), {VBytes(<<>>), VBytes(<<1, 23>>)})
    \cup Cases(Prim("unit"), {VUnit})
    \cup Cases(Opt(Prim("u8")), {VNone} \cup {VSome(x) : x \in Parts})
    \cup Cases(Vec(Prim("u8")), Seqs(U8s))
    \cup Cases(Vec(Prim("bool")), Seqs(Flags))
    \cup Cases(Vec(Opt(Prim("u8"))), Seqs({VNone, VSome(VU8(1))}))
    \cup Cases(Vec(Vec(Prim("u8"))), Seqs(Seqs({VU8(1)})))
    \cup Cases(Tuple(<<Prim("u8"), Prim("u8")>>), Pairs)
    \cup Cases(Tuple(<<Vec(Prim("u8")), Prim("u8")>>), {VTuple(<<VSeq(<<>>), VU8(1)>>), VTuple(<<VSeq(<<VU8(1)>>), VU8(1)>>)})
    \cup Cases(Vec(Tuple(<<Prim("u8"), Prim("u8")>>)), Seqs({VTuple(<<VU8(1), VU8(2)>>), VTuple(<<VU8(3), VU8(4)>>)}))
    \cup Cases(HashMap(Prim("str"), Prim("u8")), {m \in Maps(Keys, Parts) : Len(m.s) < 2 \/ m.s[1].s[1] # m.s[2].s[1]})
    \cup Cases(HashMap(Prim("str"), Prim("unit")), {VMap(<<VEntry(VStr(Name(B.a)), VUnit)>>)})
    \cup Cases(HashMap(Prim("str"), Vec(Prim("u8"))), {VMap(<<VEntry(VStr(Name(B.a)), VSeq(<<>>)), VEntry(VStr(Name(B.b)), VSeq(<<VU8(1)>>))>>)})
    \cup UNION {Cases(HashMap(kt.sh, Prim("u8")), KeyedMaps(kt)) : kt \in KeyTypes}
    \cup Cases(TestStruct, TestStructValues)
    \cup Cases(Point, PointValues)
    \cup Cases(TestEnum, TestEnumValues)
    \cup Cases(FlagEnum, FlagEnumValues)
    \cup Cases(Newtype(Prim("u8")), {VNewtype(x) : x \in Parts})

Text(sh, text) == [sh |-> sh, v |-> NoVal, text |-> text]

InsertAt(text, p, b) == SubSeq(text, 1, p) \o <<b>> \o SubSeq(text, p + 1, Len(text))

\* a literal cut short, with one byte replaced by `x`, with a space inside it,
\* and whole: alone, after a space and before another byte
Misspelt(lit) ==
  {SubSeq(lit, 1, k) : k \in 1..Len(lit)}
    \cup {[lit EXCEPT ![k] = 120] : k \in 1..Len(lit)}
    \cup {InsertAt(lit, k, B.space) : k \in 0..(Len(lit) - 1)}
    \cup {lit \o <<120>>}

LiteralTexts == {Text(sh, t) : sh \in {Prim("bool"), Prim("unit")}, t \in Misspelt(TrueLit) \cup Misspelt(FalseLit) \cup Misspelt(NullLit)}

\* Option<T> read from `null`, from what is not quite `null` and from a T
OptionTexts ==
  {Text(Opt(Prim("u8")), t) : t \in Misspelt(NullLit) \cup {<<>>, <<B.n>>, <<120>>, <<B.space, B.lf>>, <<B.lf, 55>>, <<B.tab, B.n, B.u, B.l, B.l>>}}
    \cup {Text(Opt(Prim("bool")), t) : t \in {TrueLit, <<B.space>> \o FalseLit, NullLit}}
    \cup {Text(Opt(Prim("str")), t) : t \in {<<B.quote, B.a, B.quote>>, NullLit, <<B.quote, B.n, B.quote>>}}
    \cup {Text(Opt(Vec(Prim("u8"))), t) : t \in {<<B.lbrack, 49, B.rbrack>>, NullLit}}
    \cup {Text(Opt(Opt(Prim("u8"))), t) : t \in {<<49, 50>>, NullLit}}

\* numbers with nothing after them, and numbers cut short, for the typed
\* integer and float methods and for deserialize_any
NumberTexts ==
  {Text(Prim("u8"), t) : t \in {<<55>>, <<50, 53, 53>>, <<>>}}
    \cup {Text(Prim("i8"), t) : t \in {<<55>>, <<B.minus, 55>>, <<B.minus>>}}
    \cup {Text(sh, t) : sh \in {Prim("f64"), Prim("f32"), IgnoredAny}, t \in {<<55>>, <<B.minus, 55>>, <<49, B.dot, 53>>, <<49, B.e, 50>>, <<B.minus, 49, B.dot, 53, B.upE, 50>>, <<B.minus>>, <<49, B.dot>>, <<49, B.e>>, <<55, B.space>>}}

\* the first bytes deserialize_any is tried on: one of each kind it knows
\* and some it does not, bare and after whitespace
AnyTexts ==
  {Text(sh, ws \o t) :
     sh \in {IgnoredAny, Prim("str")},
     ws \in {<<>>, <<B.space>>, <<B.lf, B.tab>>},
     t \in {<<B.quote, B.a, B.quote>>, <<B.lbrack, 49, B.rbrack>>, <<B.lbrace, B.rbrace>>, NullLit, TrueLit, FalseLit, <<B.minus, 49, B.space>>, <<57, B.comma>>,
            <<>>, <<120>>, <<B.plus, 49>>, <<B.dot, 53>>, <<B.rbrack>>, <<B.rbrace>>, <<B.colon>>, <<B.comma>>, <<78>>, <<84>>, <<47>>, <<B.bslash>>, <<39, B.a, 39>>}}

\* integers at and beyond the ends of the 8-bit and 16-bit ranges, and texts
\* with no digit where one is wanted
IntegerTexts ==
  {Text(Prim(k), t) :
     k \in {"u8", "i8", "u16", "i16"},
     t \in {<<>>, <<B.space>>, <<B.minus>>, <<120>>, <<55>>, <<48, 48, 55>>, <<B.space, 55>>, <<55, 120>>, <<B.minus, 55>>, <<B.minus, 48>>, <<B.minus, 120>>, <<B.minus, B.minus, 49>>, <<B.plus, 49>>,
            <<50, 53, 53>>, <<50, 53, 54>>, <<49, 50, 55>>, <<49, 50, 56>>, <<B.minus, 49, 50, 56>>, <<B.minus, 49, 50, 57>>,
            <<54, 53, 53, 51, 53>>, <<54, 53, 53, 51, 54>>, <<51, 50, 55, 54, 55>>, <<51, 50, 55, 54, 56>>, <<B.minus, 51, 50, 55, 54, 56>>, <<B.minus, 51, 50, 55, 54, 57>>}}

\* a string with the text t between its quotes
Quoted(t) == <<B.quote>> \o t \o <<B.quote>>

\* strings with a `\u` escape: whole, cut short, with digits that are not
\* hexadecimal, and with first digits that are not zero
EscapeTexts ==
  {Text(Prim("str"), Quoted(<<B.bslash, B.u>> \o t)) :
     t \in {<<>>, <<48>>, <<48, 48>>, <<48, 48, 52>>, <<48, 48, 52, 49>>, <<48, 48, B.e, 57>>, <<48, 48, 69, 57>>, <<48, 48, 52, 49, B.b>>,
            <<122, 122, 52, 49>>, <<48, 48, 122, 122>>, <<48, 48, 52, 103>>, <<48, 49, 52, 49>>, <<50, 54, 48, 51>>, <<70, 70, B.e, 57>>, <<48, 48, B.plus, B.f>>}}

\* the tokens of `{"a":1,"b":2}`
MapTokens == <<<<B.lbrace>>, <<B.quote, B.a, B.quote>>, <<B.colon>>, <<49>>, <<B.comma>>, <<B.quote, B.b, B.quote>>, <<B.colon>>, <<50>>, <<B.rbrace>>>>

\* the token list ts without its token i, with it twice, and with it and the
\* next one the other way round
Without(ts, i) == SubSeq(ts, 1, i - 1) \o SubSeq(ts, i + 1, Len(ts))

Doubled(ts, i) == SubSeq(ts, 1, i) \o SubSeq(ts, i, Len(ts))

Swapped(ts, i) == SubSeq(ts, 1, i - 1) \o <<ts[i + 1], ts[i]>> \o SubSeq(ts, i + 2, Len(ts))

\* maps of strings to u8: `{"a":1,"b":2}`, what is left of it with one token
\* gone, doubled or out of place, its beginnings, and maps of no and one
\* entry with a `,` too many
MapTexts ==
  {Text(HashMap(Prim("str"), Prim("u8")), Flatten(ts)) :
     ts \in {MapTokens}
       \cup {Without(MapTokens, i) : i \in 1..Len(MapTokens)}
       \cup {Doubled(MapTokens, i) : i \in 1..Len(MapTokens)}
       \cup {Swapped(MapTokens, i) : i \in 1..(Len(MapTokens) - 1)}
       \cup {SubSeq(MapTokens, 1, i) : i \in 1..(Len(MapTokens) - 1)}
       \cup {<<<<B.lbrace>>, <<B.rbrace>>>>, <<<<B.lbrace>>, <<B.comma>>, <<B.rbrace>>>>,
             <<<<B.lbrace>>, <<B.quote, B.a, B.quote>>, <<B.colon>>, <<49>>, <<B.rbrace>>>>,
             <<<<B.lbrace>>, <<B.quote, B.a, B.quote>>, <<B.colon>>, <<49>>, <<B.comma>>, <<B.rbrace>>>>,
             <<<<B.lbrace>>, <<B.comma>>, <<B.quote, B.a, B.quote>>, <<B.colon>>, <<49>>, <<B.rbrace>>>>}}

\* strings of no, one and two characters read as a char: `a` is one byte
\* long and e-acute two
CharTexts == {Text(Prim("char"), Quoted(Utf8Encode(cs))) : cs \in SeqsUpTo({B.a, 233}, 2)}

\* an element type with the text of one element of it
Elements ==
  {<<Prim("u8"), <<49>>>>, <<Prim("i8"), <<B.minus, 49>>>>, <<Prim("f64"), <<49, B.dot, 53>>>>,
   <<Prim("str"), Quoted(<<B.a>>)>>, <<Prim("char"), Quoted(<<B.a>>)>>,
   <<Prim("bool"), TrueLit>>, <<Prim("unit"), NullLit>>,
   <<Opt(Prim("u8")), NullLit>>, <<Opt(Prim("u8")), <<49>>>>,
   <<Vec(Prim("u8")), <<B.lbrack, 49, B.rbrack>>>>, <<Vec(Prim("u8")), <<B.lbrack, B.rbrack>>>>}

\* sequences and maps of every element type with a `,` that no element
\* follows or precedes, next to the same texts without it, and the pair
\* `[1,2,]`
CommaTexts ==
  UNION {{Text(Vec(el[1]), <<B.lbrack>> \o t \o <<B.rbrack>>) :
            t \in {el[2], el[2] \o <<B.comma>>, <<B.comma>> \o el[2], <<B.comma>>,
                   el[2] \o <<B.comma>> \o el[2], el[2] \o <<B.comma>> \o el[2] \o <<B.comma>>,
                   <<B.comma>> \o el[2] \o <<B.comma>> \o el[2]}}
           \cup {Text(HashMap(Prim("str"), el[1]), <<B.lbrace>> \o t \o <<B.rbrace>>) :
                   t \in {Quoted(<<B.a>>) \o <<B.colon>> \o el[2],
                          Quoted(<<B.a>>) \o <<B.colon>> \o el[2] \o <<B.comma>>}} : el \in Elements}
    \cup {Text(Tuple(<<Prim("u8"), Prim("u8")>>), t) :
            t \in {<<B.lbrack, 49, B.comma, 50, B.rbrack>>, <<B.lbrack, 49, B.comma, 50, B.comma, B.rbrack>>,
                   <<B.lbrack, B.comma, 49, B.comma, 50, B.rbrack>>}}

\* the texts handed to from_str as they are: the strings, closed or not, the
\* literals, options, numbers and first bytes above, a sequence with a space
\* in a number, and a struct with a field it does not have
Texts ==
  {Text(Prim("str"), <<B.quote>> \o t) : t \in SeqsUpTo({B.a, B.bslash, B.quote}, MaxTextLen)}
    \cup LiteralTexts
    \cup OptionTexts
    \cup NumberTexts
    \cup AnyTexts
    \cup IntegerTexts
    \cup EscapeTexts
    \cup MapTexts
    \cup CharTexts
    \cup CommaTexts
    \cup {Text(Vec(Prim("u8")), <<B.lbrack, 49, B.space, 50, B.rbrack>>), Text(Vec(Prim("u8")), <<B.lbrack, 49, B.lf, B.tab, 50, B.comma, 51, B.rbrack>>), Text(Prim("u8"), <<49, B.space, 50>>)}
    \cup {Text(Point, <<B.lbrace, B.quote, 99, B.quote, B.colon, 49, B.comma, B.quote, B.a, B.quote, B.colon, 49, B.comma, B.quote, B.b, B.quote, B.colon, 50, B.rbrace>>)}

Tests == Values \cup Texts

WsBytes == {B.space, B.tab, B.lf, B.cr}

IsNumberByte(b) == IsDigit(b) \/ b \in {B.minus, B.plus, B.dot, B.e, B.upE}

IsLetter(b) == b >= B.a /\ b <= B.a + 25

\* the offset where the run of number bytes that starts at p ends
RECURSIVE NumberEnd(_, _)
NumberEnd(text, p) == IF p < Len(text) /\ IsNumberByte(text[p + 1]) THEN NumberEnd(text, p + 1) ELSE p

\* the offset where the run of letters that starts at p ends
RECURSIVE LetterEnd(_, _)
LetterEnd(text, p) == IF p < Len(text) /\ IsLetter(text[p + 1]) THEN LetterEnd(text, p + 1) ELSE p

\* the offset after the closing quote of the string whose content starts at
\* p, a backslash escaping the character after it; Len(text) + 1 if unclosed
RECURSIVE StringEnd(_, _)
StringEnd(text, p) ==
  IF p >= Len(text) THEN Len(text) + 1
  ELSE IF text[p + 1] = B.quote THEN p + 1
  ELSE IF text[p + 1] = B.bslash THEN StringEnd(text, p + 2)
  ELSE StringEnd(text, p + 1)

\* the end of the JSON token that starts at offset p
TokenEnd(text, p) ==
  LET b == text[p + 1] IN
    CASE b = B.quote -> StringEnd(text, p + 1)
      [] IsNumberByte(b) -> NumberEnd(text, p)
      [] IsLetter(b) -> LetterEnd(text, p)
      [] OTHER -> p + 1

\* the offsets between two JSON tokens of text, from the boundary p on
RECURSIVE Boundaries(_, _)
Boundaries(text, p) ==
  IF p >= Len(text) THEN {p} \cap {Len(text)}
  ELSE {p} \cup Boundaries(text, TokenEnd(text, p))

NoGap == [at |-> 0 - 1, b |-> NoByte]

Init ==
  \E t \in Tests :
    /\ value = t.v
    /\ shape = t.sh
    /\ input = t.text
    /\ gap = NoGap
    /\ output = NewSerializer
    /\ pos = 0
    /\ hold = NoByte
    /\ ctl = Idle
    /\ stack = <<>>
    /\ result = NoResult
    /\ first = NoResult
    /\ pc = IF t.v = NoVal THEN "parse" ELSE "render"

\* the caller renders the value and hands the text to from_str; a failed
\* render is the end
ToString ==
  /\ pc = "render"
  /\ output' = to_string(value)
  /\ input' = output'.out
  /\ pc' = IF output'.err = "" THEN "parse" ELSE "failed"
  /\ UNCHANGED <<value, shape, gap, pos, hold, ctl, stack, result, first>>

\* the caller puts one whitespace byte between two tokens of a text that
\* parsed and parses the text again
Respace ==
  /\ pc = "parse"
  /\ ctl.op = "done"
  /\ result.kind = "ok"
  /\ \E at \in Boundaries(input, 0), b \in WsBytes :
       /\ gap' = [at |-> at, b |-> b]
       /\ input' = InsertAt(input, at, b)
  /\ first' = result
  /\ result' = NoResult
  /\ ctl' = Idle
  /\ pc' = "reparse"
  /\ UNCHANGED <<value, shape, output, pos, hold, stack>>

Next ==
  \/ ToString
  \/ Respace
  \/ from_str
  \/ from_str_return
  \/ deserialize_any
  \/ deserialize_number
  \/ deserialize_str
  \/ deserialize_char
  \/ parse_string_read
  \/ parse_string_check
  \/ deserialize_bool
  \/ deserialize_unit
  \/ deserialize_uint
  \/ deserialize_int
  \/ deserialize_float
  \/ deserialize_byte_buf
  \/ deserialize_option
  \/ deserialize_newtype_struct
  \/ visit_wrapped
  \/ deserialize_seq
  \/ next_element_seed
  \/ visit_seq
  \/ deserialize_map
  \/ next_key_seed
  \/ visit_map_key
  \/ next_value_seed
  \/ visit_map_value
  \/ deserialize_enum
  \/ variant_seed
  \/ deserialize_enum_end

Spec == Init /\ [][Next]_vars

\* from_str::<String> on the texts that open a string, and nothing else:
\* the call, once made, runs on until it returns
StringInit == Init /\ value = NoVal /\ shape = Prim("str") /\ input # <<>> /\ input[1] = B.quote

StringNext ==
  \/ from_str
  \/ from_str_return
  \/ deserialize_any
  \/ deserialize_str
  \/ parse_string_read
  \/ parse_string_check

StringSpec == StringInit /\ [][StringNext]_vars /\ WF_vars(StringNext)

(***************************************************************************)
(* The byte cursor on its own: peek and next called in any order on a      *)
(* short stream.  ctl.log keeps, for every call made, what it returned and *)
(* the cursor it left behind.                                              *)
(***************************************************************************)

MaxStreamLen == 2

MaxCalls == 3

\* the bytes of the streams: the four JSON whitespace bytes, the other bytes
\* below 256 that char::is_whitespace accepts, and two bytes of a token
StreamBytes == WsBytes \cup {11, 12, 133, 160, B.a, 49}

CursorInit ==
  /\ input \in SeqsUpTo(StreamBytes, MaxStreamLen)
  /\ pos = 0
  /\ hold = NoByte
  /\ ctl = [op |-> "cursor", log |-> <<>>]
  /\ value = NoVal
  /\ shape = Prim("u8")
  /\ gap = NoGap
  /\ output = NewSerializer
  /\ stack = <<>>
  /\ result = NoResult
  /\ first = NoResult
  /\ pc = "cursor"

\* one call of f (peek or next) on the Deserializer, r what it returned
Called(f, r) ==
  /\ pos' = r.cur.pos
  /\ hold' = r.cur.hold
  /\ ctl' = [ctl EXCEPT !.log = Append(@, [f |-> f, ok |-> r.ok, b |-> r.b, pos |-> r.cur.pos, hold |-> r.cur.hold])]
  /\ UNCHANGED <<value, shape, gap, output, input, stack, result, first, pc>>

CallPeek ==
  /\ pc = "cursor"
  /\ Len(ctl.log) < MaxCalls
  /\ Called("peek", peek(input, Cur))

CallNext ==
  /\ pc = "cursor"
  /\ Len(ctl.log) < MaxCalls
  /\ Called("next", next(input, Cur))

CursorNext ==
  \/ CallPeek
  \/ CallNext

CursorSpec == CursorInit /\ [][CursorNext]_vars

(***************************************************************************)
(* parse_number on its own: one call on a short text, the visit_* it ends  *)
(* with (or its Error) kept in ctl.                                        *)
(***************************************************************************)

MaxNumberLen == 4

\* the bytes of a number and one byte that ends it
NumberBytes == {B.minus, 49, 57, B.dot, B.e, B.upE, B.rbrack}

\* 2^64, 2^63 and -(2^63 + 1), each before a `]`
LongNumbers == {
  <<49, 56, 52, 52, 54, 55, 52, 52, 48, 55, 51, 55, 48, 57, 53, 53, 49, 54, 49, 54, B.rbrack>>,
  <<B.minus, 57, 50, 50, 51, 51, 55, 50, 48, 51, 54, 56, 53, 52, 55, 55, 53, 56, 48, 57, B.rbrack>>,
  <<B.minus, 57, 50, 50, 51, 51, 55, 50, 48, 51, 54, 56, 53, 52, 55, 55, 53, 56, 48, 57, B.dot, 49, B.rbrack>>}

NumberInit ==
  /\ input \in SeqsUpTo(NumberBytes, MaxNumberLen) \cup LongNumbers
  /\ pos = 0
  /\ hold = NoByte
  /\ ctl = [op |-> "number"]
  /\ value = NoVal
  /\ shape = IgnoredAny
  /\ gap = NoGap
  /\ output = NewSerializer
  /\ stack = <<>>
  /\ result = NoResult
  /\ first = NoResult
  /\ pc = "number"

\* one call of parse_number: class says which of visit_u64, visit_i64 and
\* visit_f64 gets the text, e is the Error when none does
CallParseNumber ==
  /\ pc = "number"
  /\ ctl.op = "number"
  /\ LET r == parse_number(input, Cur) IN
       /\ pos' = r.cur.pos
       /\ hold' = r.cur.hold
       /\ ctl' = [op |-> "visited", e |-> r.e, class |-> r.class, text |-> r.text]
  /\ UNCHANGED <<value, shape, gap, output, input, stack, result, first, pc>>

NumberNext ==
  \/ CallParseNumber

NumberSpec == NumberInit /\ [][NumberNext]_vars

(***************************************************************************)
(* Properties.  Rendered says that to_string has returned, Parsed that     *)
(* from_str has returned for a rendered value, before any whitespace is    *)
(* put into the text.                                                      *)
(***************************************************************************)

Rendered == value # NoVal /\ pc # "render"

Parsed == value # NoVal /\ pc = "parse" /\ ctl.op = "done"

\* the JSON text of a value with a `,` between two neighbours of an
\* aggregate and nowhere else; scalars and keys as the Serializer writes them
RECURSIVE Json(_), JoinElements(_, _), JoinEntries(_, _)
Json(v) ==
  CASE v.t \in {"seq", "tuple", "tuple_struct", "bytes"} -> <<B.lbrack>> \o JoinElements(v.s, 1) \o <<B.rbrack>>
    [] v.t \in {"map", "struct"} -> <<B.lbrace>> \o JoinEntries(v.s, 1) \o <<B.rbrace>>
    [] v.t \in {"some", "newtype"} -> Json(v.s[1])
    [] v.t = "newtype_variant" -> VariantOpen(NewSerializer, v.c).out \o Json(v.s[1]) \o <<B.rbrace>>
    [] v.t = "tuple_variant" -> VariantOpen(NewSerializer, v.c).out \o <<B.lbrack>> \o JoinElements(v.s, 1) \o <<B.rbrack, B.rbrace>>
    [] v.t = "struct_variant" -> VariantOpen(NewSerializer, v.c).out \o <<B.lbrace>> \o JoinEntries(v.s, 1) \o <<B.rbrace, B.rbrace>>
    [] OTHER -> Serialize(NewSerializer, v).out

JoinElements(vs, i) ==
  IF i > Len(vs) THEN <<>>
  ELSE (IF i > 1 THEN <<B.comma>> ELSE <<>>) \o Json(vs[i]) \o JoinElements(vs, i + 1)

JoinEntries(es, i) ==
  IF i > Len(es) THEN <<>>
  ELSE (IF i > 1 THEN <<B.comma>> ELSE <<>>) \o KeySerializer(NewSerializer, es[i].s[1]).out \o <<B.colon>> \o Json(es[i].s[2]) \o JoinEntries(es, i + 1)

\* C1: from_str applied to to_string(v) succeeds and returns a value equal to
\* v, for every value v of the data model.
C1_RoundTrip == Parsed => result = Ok(value)

\* C2: in the rendered output a `,` stands before every element or entry of
\* an aggregate except the first, and before nothing else, at every depth,
\* also after a nested aggregate with no elements.
C2_Separators == (Rendered /\ output.err = "") => output.out = Json(value)

Literals == {"bool", "unit", "none"}

\* C3: once deserialize_bool, deserialize_unit or deserialize_option has
\* parsed `true`, `false` or `null`, the hold register no longer has the
\* literal's first byte; a sequence of booleans and a sequence of options
\* are parsed back to what was rendered.
C3_LiteralConsumed ==
  /\ (ctl.op = "ret" /\ ctl.v.t \in Literals) => hold \notin {B.t, B.f, B.n}
  /\ (Parsed /\ shape \in {Vec(Prim("bool")), Vec(Opt(Prim("u8")))}) => result = Ok(value)

\* C4: from_str::<String>(to_string(s)) returns s for every string s, also
\* the empty one and those that contain or end with `"` or `\`.
C4_StringRoundTrip == (Parsed /\ shape = Prim("str")) => result = Ok(value)

\* C5: a text that parses to v still parses to v with a space, tab, newline
\* or carriage return put between two of its tokens.
C5_Whitespace == (pc = "reparse" /\ ctl.op = "done") => result = first

\* the text starts with `"` and ends without an unescaped closing `"`
UnclosedString == input # <<>> /\ input[1] = B.quote /\ StringEnd(input, 1) > Len(input)

\* C6: parsing as a string a text that starts with `"` and ends without an
\* unescaped closing `"` fails with Unclosed('"').
C6_Unclosed == (shape = Prim("str") /\ UnclosedString /\ ctl.op = "done") => result = Err("Unclosed_quote")

\* C7: every from_str call on a finite input eventually returns, with a
\* value or with an error.
C7_Returns == (ctl.op = "de") ~> (ctl.op = "done")

\* C8: the closing delimiter of an aggregate is consumed also when the
\* visitor pulls a fixed number of elements: a sequence of pairs and a tuple
\* variant are parsed back to what was rendered.
C8_FixedLength ==
  (Parsed /\ (shape = Vec(Tuple(<<Prim("u8"), Prim("u8")>>)) \/ value.t = "tuple_variant")) => result = Ok(value)

\* the key is a character or a string, possibly inside Some or a newtype
RECURSIVE IsStringKey(_)
IsStringKey(key) ==
  CASE key.t \in {"str", "char"} -> TRUE
    [] key.t \in {"some", "newtype"} -> IsStringKey(key.s[1])
    [] OTHER -> FALSE

\* the entries of a map whose key is not a character or a string
BadKeys(m) == {i \in 1..Len(m.s) : ~IsStringKey(m.s[i].s[1])}

\* what is written of a map before its entry i: the `{`, the entries before
\* i and the `,` that separates entry i from them
BeforeEntry(m, i) == <<B.lbrace>> \o JoinEntries(SubSeq(m.s, 1, i - 1), 1) \o (IF i > 1 THEN <<B.comma>> ELSE <<>>)

\* C9: rendering a map succeeds iff every key is a character or a string,
\* possibly inside Some or a newtype; any other key fails the render with
\* KeyNotString, and nothing of that key is written.
C9_KeyNotString ==
  (Rendered /\ value.t = "map") =>
    IF BadKeys(value) = {} THEN output.err = ""
    ELSE /\ output.err = "KeyNotString"
         /\ \A i \in BadKeys(value) : (\A j \in BadKeys(value) : i <= j) => output.out = BeforeEntry(value, i)

\* a map whose first key is written and whose second key is refused
C9_Witness ==
  /\ pc = "failed"
  /\ value.t = "map"
  /\ BadKeys(value) = {2}
  /\ output.err = "KeyNotString"

\* the text `[x1,x2,...,xn]` of the integers of vs
RECURSIVE Listed(_, _)
Listed(vs, i) ==
  IF i > Len(vs) THEN <<>>
  ELSE (IF i > 1 THEN <<B.comma>> ELSE <<>>) \o Itoa(vs[i].n) \o Listed(vs, i + 1)

\* C10: the text `[x1,x2,...,xn]` parsed as a sequence of unsigned 8-bit
\* integers gives x1..xn in order with the closing `]` consumed, and the
\* sequence is rendered as exactly that text.
C10_ByteSequence ==
  (Rendered /\ shape = Vec(Prim("u8"))) =>
    /\ output.err = ""
    /\ output.out = <<B.lbrack>> \o Listed(value.s, 1) \o <<B.rbrack>>
    /\ Parsed => (result = Ok(value) /\ pos = Len(input) /\ hold = NoByte)

\* a sequence of two integers has been rendered and parsed back
C10_Witness ==
  /\ Parsed
  /\ shape = Vec(Prim("u8"))
  /\ Len(value.s) = 2
  /\ value.s[1] # value.s[2]
  /\ result = Ok(value)

\* C11: `{"Name":payload}` parsed as an enum gives the variant Name, a
\* newtype variant with the payload as its inner value and a struct variant
\* with the payload's fields; the outer `}` is consumed and the call succeeds.
C11_EnumObject ==
  (Parsed /\ value.t \in {"newtype_variant", "struct_variant"}) =>
    (result = Ok(value) /\ pos = Len(input) /\ hold = NoByte)

\* the payload of a variant as it is rendered on its own: the inner value,
\* the sequence of the fields of a tuple variant, the map of a struct variant
Payload(v) ==
  CASE v.t = "newtype_variant" -> v.s[1]
    [] v.t = "tuple_variant" -> VSeq(v.s)
    [] v.t = "struct_variant" -> VMap(v.s)

\* C12: a newtype, tuple or struct variant V is rendered as `{"V":`, the
\* payload and one `}`, with nothing between them; a unit variant as `"V"`.
C12_VariantText ==
  /\ (Rendered /\ value.t = "unit_variant") =>
       (output.err = "" /\ output.out = <<B.quote>> \o value.c \o <<B.quote>>)
  /\ (Rendered /\ value.t \in {"newtype_variant", "tuple_variant", "struct_variant"}) =>
       (output.err = "" /\ output.out = <<B.lbrace, B.quote>> \o value.c \o <<B.quote, B.colon>> \o to_string(Payload(value)).out \o <<B.rbrace>>)

\* a tuple variant of two fields has been rendered
C12_Witness ==
  /\ Rendered
  /\ value.t = "tuple_variant"
  /\ Len(value.s) = 2
  /\ output.out = <<B.lbrace, B.quote, 84, B.quote, B.colon, B.lbrack, 49, B.comma, 50, 51, B.rbrack, B.rbrace>>

\* the digits of lowercase hexadecimal
LowerHex == <<48, 49, 50, 51, 52, 53, 54, 55, 56, 57, 97, 98, 99, 100, 101, 102>>

\* the escape of a character: two characters for `"`, `\`, backspace, form
\* feed, newline, carriage return and tab, \u00XX for the other characters
\* below 0x20, the character itself otherwise
Escaped(c) ==
  CASE c = 34 -> <<92, 34>>
    [] c = 92 -> <<92, 92>>
    [] c = 8 -> <<92, 98>>
    [] c = 12 -> <<92, 102>>
    [] c = 10 -> <<92, 110>>
    [] c = 13 -> <<92, 114>>
    [] c = 9 -> <<92, 116>>
    [] c < 32 /\ c \notin {8, 9, 10, 12, 13} -> <<92, 117, 48, 48, LowerHex[(c \div 16) + 1], LowerHex[(c % 16) + 1]>>
    [] OTHER -> <<c>>

\* C13: escape writes the two-character escapes, \u00XX in lowercase hex for
\* the other control characters and every other character as it is, and
\* unescape of the escapes of c1..cn gives c1..cn back.
C13_EscapeInverse ==
  (Rendered /\ value.t \in {"str", "char"}) =>
    /\ output.out = <<B.quote>> \o Utf8Encode(Flatten([i \in 1..Len(value.c) |-> Escaped(value.c[i])])) \o <<B.quote>>
    /\ unescape(Flatten([i \in 1..Len(value.c) |-> escape(value.c[i])])) = [kind |-> "ok", s |-> value.c, e |-> ""]

\* the string of the character 0x0F and a `"` has been rendered
C13_Witness ==
  /\ Rendered
  /\ value = VStr(<<15, B.quote>>)
  /\ output.out = <<B.quote, B.bslash, B.u, 48, 48, 48, 102, B.bslash, B.quote, B.quote>>

\* text begins with the bytes of lit
StartsWith(text, lit) == Len(text) >= Len(lit) /\ SubSeq(text, 1, Len(lit)) = lit

\* the bytes of text that end at offset p are those of lit
EndsAt(text, p, lit) == p >= Len(lit) /\ SubSeq(text, p - Len(lit) + 1, p) = lit

\* text is lit after any number of spaces, tabs and line ends
AfterSpaces(text, lit) == \E k \in 0..Len(text) : (\A i \in 1..k : text[i] \in WsBytes) /\ StartsWith(SubSeq(text, k + 1, Len(text)), lit)

\* C14: a boolean comes back only when the bytes just read are exactly `true`
\* (for true) or `false` (for false), and a unit only when they are exactly
\* `null`; a text that is not the literal (after the whitespace skipped in
\* front of a boolean) is never answered with a boolean or a unit.
C14_ExactLiterals ==
  /\ (ctl.op = "ret" /\ ctl.v = VBool(TRUE)) => EndsAt(input, pos, TrueLit)
  /\ (ctl.op = "ret" /\ ctl.v = VBool(FALSE)) => EndsAt(input, pos, FalseLit)
  /\ (ctl.op = "ret" /\ ctl.v = VUnit) => EndsAt(input, pos, NullLit)
  /\ (ctl.op = "done" /\ shape = Prim("bool") /\ ~AfterSpaces(input, TrueLit) /\ ~AfterSpaces(input, FalseLit)) => result.kind # "ok"
  /\ (ctl.op = "done" /\ shape = Prim("bool") /\ result.kind = "ok") => AfterSpaces(input, IF result.v = VBool(TRUE) THEN TrueLit ELSE FalseLit)
  /\ (ctl.op = "done" /\ shape = Prim("unit") /\ ~StartsWith(input, NullLit)) => result.kind # "ok"

\* `tru` read as a bool: the input ends inside the literal
C14_Witness == ctl.op = "done" /\ shape = Prim("bool") /\ input = SubSeq(TrueLit, 1, 3) /\ result = Err("Io")

\* the first byte of text that is not a space, a tab or a line end is b
FirstByte(text, b) == b \notin WsBytes /\ \E k \in 1..Len(text) : text[k] = b /\ \A i \in 1..(k - 1) : text[i] \in WsBytes

\* C15: deserialize_option answers None exactly when the next byte that is
\* not whitespace is `n` and `null` follows; on any other byte it hands over
\* to the contained type with that byte still held (the read offset just
\* behind it), and what the contained type returns is reported as Some.
C15_Option ==
  /\ (ctl.op = "ret" /\ ctl.v = VNone) => EndsAt(input, pos, NullLit)
  /\ (ctl.op = "de" /\ stack # <<>> /\ Top.f = "some") => (hold # NoByte /\ hold # B.n /\ hold \notin WsBytes /\ pos > 0 /\ input[pos] = hold)
  /\ (ctl.op = "de" /\ stack = <<[f |-> "some"]>>) => (FirstByte(input, hold) /\ ctl.vis = shape.of[1])
  /\ (ctl.op = "done" /\ shape.k = "opt") =>
       /\ AfterSpaces(input, NullLit) <=> result = Ok(VNone)
       /\ (result.kind = "ok" /\ ~FirstByte(input, B.n)) => result.v.t = "some"
       /\ (FirstByte(input, B.n) /\ ~AfterSpaces(input, NullLit)) => result.kind # "ok"

\* Option<bool> on `true`: the contained type is called with `t` held
C15_Witness == ctl.op = "de" /\ stack = <<[f |-> "some"]>> /\ shape = Opt(Prim("bool")) /\ input = TrueLit /\ hold = B.t /\ pos = 1

\* the cursor before call i of the log
Before(i) == IF i = 1 THEN NewCursor ELSE [pos |-> ctl.log[i - 1].pos, hold |-> ctl.log[i - 1].hold]

\* b is the byte at offset q of the stream, the first one after offset p
\* that char::is_whitespace does not accept
FreshByte(p, q, b) == q > p /\ q <= Len(input) /\ input[q] = b /\ ~IsWhitespace(b) /\ \A k \in (p + 1)..(q - 1) : IsWhitespace(input[k])

\* C16: whatever peeks and nexts have been called, the hold keeps at most
\* one byte, the last one read; a peek right after a peek returns the same
\* byte and reads nothing; a next right after a peek returns the peeked byte
\* and empties the hold; a next on an empty hold returns the next byte of the
\* stream that is not whitespace.
C16_Cursor ==
  (pc = "cursor") =>
    /\ hold = NoByte \/ (pos > 0 /\ hold = input[pos])
    /\ \A i \in 1..Len(ctl.log) :
         LET c == ctl.log[i]
             was == Before(i)
         IN /\ (i > 1 /\ ctl.log[i - 1].f = "peek" /\ ctl.log[i - 1].ok /\ c.f = "peek") =>
                 (c.ok /\ c.b = ctl.log[i - 1].b /\ c.pos = was.pos /\ c.hold = was.hold)
            /\ (i > 1 /\ ctl.log[i - 1].f = "peek" /\ ctl.log[i - 1].ok /\ c.f = "next") =>
                 (c.ok /\ c.b = ctl.log[i - 1].b /\ c.pos = was.pos /\ c.hold = NoByte)
            /\ (c.f = "next" /\ was.hold = NoByte /\ c.ok) => (FreshByte(was.pos, c.pos, c.b) /\ c.hold = NoByte)
            /\ (c.f = "next" /\ was.hold = NoByte /\ ~c.ok) => \A k \in (was.pos + 1)..Len(input) : IsWhitespace(input[k])

\* peek, peek, next on ` 1`: all three return `1` and the hold is empty
C16_Witness ==
  /\ pc = "cursor"
  /\ input = <<B.space, 49>>
  /\ Len(ctl.log) = 3
  /\ ctl.log[1] = [f |-> "peek", ok |-> TRUE, b |-> 49, pos |-> 2, hold |-> 49]
  /\ ctl.log[2] = ctl.log[1]
  /\ ctl.log[3] = [f |-> "next", ok |-> TRUE, b |-> 49, pos |-> 2, hold |-> NoByte]

\* the first byte of the stream after offset p that is not a space, a tab, a
\* newline or a carriage return, NoByte if there is none
RECURSIVE Significant(_)
Significant(p) == IF p >= Len(input) THEN NoByte ELSE IF input[p + 1] \in WsBytes THEN Significant(p + 1) ELSE input[p + 1]

\* C17: peek and next skip space, tab, newline and carriage return and
\* nothing else: a call that reads the stream returns the first byte that is
\* none of these four, whatever byte it is.
C17_SkippedBytes ==
  (pc = "cursor") =>
    \A i \in 1..Len(ctl.log) :
      Before(i).hold = NoByte => ctl.log[i].b = Significant(Before(i).pos)

\* C18: a byte buffer, the empty one included, is rendered as a JSON array of
\* its bytes and parse_byte_buf reads the array back as the same buffer.
C18_ByteBufRoundTrip == (Parsed /\ shape = Prim("bytes")) => result = Ok(value)

\* text is a JSON number from its first byte to its last: an optional `-`,
\* digits, an optional `.` with digits, an optional `e` or `E` with digits
NumberLiteral(text) ==
  LET i0 == IF text # <<>> /\ text[1] = B.minus THEN 2 ELSE 1
      n1 == DigitRun(text, i0)
      i1 == i0 + n1
      dot == i1 <= Len(text) /\ text[i1] = B.dot
      n2 == IF dot THEN DigitRun(text, i1 + 1) ELSE 0
      i2 == IF dot THEN i1 + 1 + n2 ELSE i1
      ex == i2 <= Len(text) /\ text[i2] \in {B.e, B.upE}
      n3 == IF ex THEN DigitRun(text, i2 + 1) ELSE 0
  IN n1 >= 1 /\ (dot => n2 >= 1) /\ (ex => n3 >= 1) /\ (IF ex THEN i2 + 1 + n3 ELSE i2) = Len(text) + 1

\* text is a number the type of shape sh can hold
Holds(sh, text) ==
  /\ NumberLiteral(text)
  /\ sh.k \in UIntKinds \cup IntKinds \cup {"f32", "f64", "ignored"}
  /\ sh.k \in UIntKinds \cup IntKinds => ParseInteger(text, sh.k).ok

\* C19: a number with no byte after it, read as the whole input, parses: the
\* end of input after its last digit ends the number, whether it is read as
\* an unsigned integer, a signed integer, a float or through deserialize_any.
C19_NumberAtEnd == (ctl.op = "done" /\ Holds(shape, input)) => result.kind = "ok"

\* the method that the byte b selects, "none" if it selects none
Selected(b) ==
  CASE b = B.quote -> "str"
    [] b = B.lbrack -> "seq"
    [] b = B.lbrace -> "map"
    [] b = B.n -> "unit"
    [] b \in {B.t, B.f} -> "bool"
    [] b = B.minus \/ (b >= 48 /\ b <= 57) -> "number"
    [] OTHER -> "none"

\* C20: deserialize_any goes by the first byte that is not whitespace and by
\* nothing else: `"` string, `[` sequence, `{` map, `n` unit, `t` and `f`
\* boolean, `-` and the digits number.  The method it selects starts with
\* that byte still held; any other byte ends the call with Unexpected.
C20_Dispatch ==
  /\ (ctl.op = "de" /\ Forward(Method(ctl.vis)) = "any" /\ ctl.m # "any") =>
       /\ hold # NoByte /\ pos > 0 /\ input[pos] = hold
       /\ ctl.m = Selected(hold)
       /\ stack = <<>> => FirstByte(input, hold)
  /\ (ctl.op = "done" /\ shape.k \in {"str", "ignored"}) =>
       \A b \in 0..255 : (FirstByte(input, b) /\ Selected(b) = "none") => (result = Err("Unexpected") /\ hold = b)

\* IgnoredAny on ` [1]`: deserialize_seq is selected with `[` held
C20_Witness == ctl.op = "de" /\ ctl.m = "seq" /\ stack = <<>> /\ shape = IgnoredAny /\ input = <<B.space, B.lbrack, 49, B.rbrack>> /\ hold = B.lbrack /\ pos = 2

\* the bytes taken from the input so far, the held one left out
Taken == SubSeq(input, 1, IF hold = NoByte THEN pos ELSE pos - 1)

\* text has one of the bytes of S
HasByte(text, S) == \E i \in 1..Len(text) : text[i] \in S

\* the class of a number's text: f64 with a `.` or an `e`/`E`, else i64 with
\* a leading `-`, else u64
ClassOf(text) ==
  IF HasByte(text, {B.dot, B.e, B.upE}) THEN "f64"
  ELSE IF text # <<>> /\ text[1] = B.minus THEN "i64"
  ELSE "u64"

\* C21: parse_number hands a number to visit_i64 exactly when its text has a
\* leading `-` and no `.`, `e` or `E`, to visit_u64 exactly when it has none
\* of the four, and to visit_f64 in every other case; an integer text that
\* does not fit its 64-bit class fails the call and is not taken as a float.
C21_NumberClass ==
  (pc = "number" /\ ctl.op = "visited") =>
    /\ ctl.e = "" => (ctl.text = Taken /\ ctl.class = ClassOf(Taken))
    /\ (ctl.e \notin {"", "Io"} /\ ClassOf(Taken) # "f64") => ctl.e = "ParseInt"
    /\ (ClassOf(Taken) # "f64" /\ ~ParseInteger(Taken, ClassOf(Taken)).ok) => ctl.e # ""

\* 2^64 read through parse_number: ParseInt, not a float
C21_Witness ==
  /\ pc = "number"
  /\ ctl.op = "visited"
  /\ Len(input) = 21
  /\ input[1] = 49
  /\ ctl.e = "ParseInt"
  /\ ctl.class = "u64"

\* the bytes of text that the scan of a number gets to see: peek and next
\* hand it every byte but the whitespace
Trimmed(text) == SelectSeq(text, LAMBDA b : ~IsWhitespace(b))

\* the least and the greatest value of the 8-bit and 16-bit integer types
Range == [u8 |-> [lo |-> 0, hi |-> 255], i8 |-> [lo |-> 0 - 128, hi |-> 127], u16 |-> [lo |-> 0, hi |-> 65535], i16 |-> [lo |-> 0 - 32768, hi |-> 32767]]

\* the text scanned for an integer of type k: the `-` (for a signed k) and
\* the digits after it, up to the first byte that is neither a digit nor
\* whitespace; some says that there is a digit, n is the value
Scanned(k, text) ==
  LET t == Trimmed(text)
      neg == k \in IntKinds /\ t # <<>> /\ t[1] = B.minus
      i0 == IF neg THEN 2 ELSE 1
      len == DigitRun(t, i0)
      v == DecVal([i \in 1..len |-> t[i0 + i - 1] - 48], 1, 0)
  IN [some |-> len >= 1, n |-> IF neg THEN 0 - v ELSE v]

\* the integer of type k that text starts with is inside the range of k
InRange(k, text) == Scanned(k, text).some /\ Scanned(k, text).n >= Range[k].lo /\ Scanned(k, text).n <= Range[k].hi

\* from_str has returned for an 8-bit or 16-bit integer type
IntegerDone == ctl.op = "done" /\ shape.k \in DOMAIN Range /\ shape.of = <<>>

IsHex(b) == (b >= 48 /\ b <= 57) \/ (b >= 97 /\ b <= 102) \/ (b >= 65 /\ b <= 70)

\* the text s has, from position i on, an escape that is not whole: a
\* backslash with nothing after it, or a `\u` without four hexadecimal
\* digits after it
RECURSIVE BadEscapeFrom(_, _)
BadEscapeFrom(s, i) ==
  IF i > Len(s) THEN FALSE
  ELSE IF s[i] # B.bslash THEN BadEscapeFrom(s, i + 1)
  ELSE IF i = Len(s) THEN TRUE
  ELSE IF s[i + 1] # B.u THEN BadEscapeFrom(s, i + 2)
  ELSE i + 5 > Len(s) \/ (\E j \in (i + 2)..(i + 5) : ~IsHex(s[j])) \/ BadEscapeFrom(s, i + 6)

\* the input is one string from its first byte to its last: what is between
\* the quotes
Content == SubSeq(input, 2, Len(input) - 1)

\* the input is a string closed by its last byte, with no quote before it
\* that closes it
WholeString == Len(input) >= 2 /\ input[1] = B.quote /\ Last(input) = B.quote /\ StringEnd(input, 1) >= Len(input)

\* C23: a string with an escape that is cut short or malformed (a `\u` with
\* fewer than four characters after it or with characters that are not
\* hexadecimal digits, a backslash at the end of the span) fails with
\* InvalidEscape.
C23_InvalidEscape ==
  (ctl.op = "done" /\ shape = Prim("str") /\ WholeString /\ BadEscapeFrom(Content, 1)) => result = Err("InvalidEscape")

\* the value of the hexadecimal digit b, upper or lower case
HexOf(b) == (CHOOSE i \in 1..16 : LowerHex[i] = (IF b >= 65 /\ b <= 70 THEN b + 32 ELSE b)) - 1

\* the content of the string is one `\u` escape with four hexadecimal
\* digits, and after it characters that are neither a backslash nor a quote
OneUnicodeEscape ==
  /\ WholeString
  /\ Len(Content) >= 6
  /\ Content[1] = B.bslash /\ Content[2] = B.u
  /\ \A j \in 3..6 : IsHex(Content[j])
  /\ \A j \in 7..Len(Content) : Content[j] \notin {B.bslash, B.quote} /\ Content[j] < 128

\* C25: `\uXXXX` is read as the character whose code point is the value of
\* the last two of the four hexadecimal digits; the first two count for
\* nothing.
C25_LowByte ==
  (ctl.op = "done" /\ shape = Prim("str") /\ OneUnicodeEscape) =>
    result = Ok(VStr(<<16 * HexOf(Content[5]) + HexOf(Content[6])>> \o SubSeq(Content, 7, Len(Content))))

\* the snowman, U+2603, has been read as U+0003
C25_Witness == ctl.op = "done" /\ shape = Prim("str") /\ input = Quoted(<<B.bslash, B.u, 50, 54, 48, 51>>) /\ result = Ok(VStr(<<3>>))

\* the last byte of the input before offset p that is not whitespace, NoByte
\* if there is none
RECURSIVE PrevByte(_)
PrevByte(p) == IF p <= 0 THEN NoByte ELSE IF input[p] \in WsBytes THEN PrevByte(p - 1) ELSE input[p]

\* the offset after the string that opens at position i of text (no escape in
\* it), 0 if none does
SimpleString(text, i) ==
  IF i + 1 <= Len(text) /\ text[i] = B.quote /\ (\E j \in (i + 1)..Len(text) : text[j] = B.quote)
  THEN (CHOOSE j \in (i + 1)..Len(text) : text[j] = B.quote /\ \A k \in (i + 1)..(j - 1) : text[k] # B.quote) + 1
  ELSE 0

\* from position i on text is key:value entries with one `,` between two of
\* them and a `}` after the last: the keys are strings, the values digits
RECURSIVE EntriesFrom(_, _)
EntriesFrom(text, i) ==
  LET c == SimpleString(text, i)
      v == c + 1
      n == DigitRun(text, v)
      k == v + n
  IN /\ c > 0 /\ c <= Len(text) /\ text[c] = B.colon
     /\ n >= 1
     /\ k <= Len(text)
     /\ text[k] = B.rbrace \/ (text[k] = B.comma /\ EntriesFrom(text, k + 1))

\* text is `{`, entries and `}`, or `{}`
WellFormedMap(text) == Len(text) >= 2 /\ text[1] = B.lbrace /\ (text[2] = B.rbrace \/ EntriesFrom(text, 2))

\* the cursor has just asked for a key, or for a value, of the map on top of
\* the stack
KeyAsked == ctl.op = "de" /\ stack # <<>> /\ Top.f = "map" /\ Top.key = NoVal /\ ctl = Call(ctl.vis)

ValueAsked == ctl.op = "de" /\ stack # <<>> /\ Top.f = "map" /\ Top.key # NoVal /\ ctl = Call(ctl.vis)

\* C24: the map cursor takes the `}` it sees at a key pull and ends the map;
\* at any other key pull it takes a `,` unless the pull is the first after
\* `{`, and then asks for the key; at every value pull it takes a `:` and
\* asks for the value.  So a map of strings to u8 is returned only for `{`,
\* key:value entries with one `,` between two of them, and `}`.
C24_MapProtocol ==
  /\ (ctl.op = "ret" /\ ctl.v.t \in {"map", "struct"}) => (hold = NoByte /\ pos > 0 /\ input[pos] = B.rbrace)
  /\ KeyAsked =>
       \/ hold # NoByte /\ hold # B.rbrace /\ input[pos] = hold /\ PrevByte(pos - 1) = B.lbrace
       \/ hold = NoByte /\ input[pos] = B.comma /\ PrevByte(pos - 1) # B.lbrace
  /\ ValueAsked => (hold = NoByte /\ input[pos] = B.colon)
  /\ (ctl.op = "done" /\ pc = "parse" /\ shape = HashMap(Prim("str"), Prim("u8")) /\ result.kind = "ok") => WellFormedMap(input)

\* `{"a":1,,"b":2}` has failed at the second `,`
C24_Witness ==
  /\ ctl.op = "done"
  /\ shape = HashMap(Prim("str"), Prim("u8"))
  /\ input = Flatten(Doubled(MapTokens, 5))
  /\ result = Err("Unexpected")
  /\ pos = 8

\* C26: from_str never panics: whatever the input, the call returns Ok or
\* an Error.
C26_NoPanic == result # Panic

\* text has two digits with whitespace, and nothing but whitespace, between
\* them
DigitsApart(text) ==
  \E i \in 1..Len(text), j \in 1..Len(text) :
    /\ j > i + 1
    /\ IsDigit(text[i]) /\ IsDigit(text[j])
    /\ \A k \in (i + 1)..(j - 1) : text[k] \in WsBytes

\* C27: whitespace ends a number: a sequence of u8 with two runs of digits
\* that only whitespace keeps apart, as `[1 2]`, lacks a `,` and fails; the
\* two runs are never read as one number.
C27_WhitespaceEndsNumber ==
  (ctl.op = "done" /\ shape = Vec(Prim("u8")) /\ DigitsApart(input)) => result.kind = "err"

\* C28: deserialize_char returns the character of a string of exactly one
\* character, however many bytes encode it, and fails with Unexpected on the
\* empty string and on a string of two or more characters.
C28_SingleChar ==
  (ctl.op = "done" /\ shape = Prim("char") /\ WholeString /\ from_utf8(Content).ok /\ ~HasByte(Content, {B.bslash})) =>
    IF Len(from_utf8(Content).chars) = 1 THEN result = Ok(VChar(from_utf8(Content).chars[1]))
    ELSE result = Err("Unexpected")

\* byte i of the input is outside the strings of a text without escapes
Outside(i) == Cardinality({j \in 1..(i - 1) : input[j] = B.quote}) % 2 = 0

\* the input has a `,` directly before `]` or `}`, or directly after `[`
Dangling ==
  \E i \in 1..(Len(input) - 1) :
    /\ Outside(i)
    /\ \/ input[i] = B.comma /\ input[i + 1] \in {B.rbrack, B.rbrace}
       \/ input[i] = B.lbrack /\ input[i + 1] = B.comma

\* C29: a separator that no element follows is rejected: a text with `,`
\* directly before `]` or `}` or directly after `[` makes from_str fail,
\* whatever the type of the elements.
C29_DanglingComma ==
  (ctl.op = "done" /\ ~HasByte(input, {B.bslash}) /\ Dangling) => result.kind = "err"

\* the Serializer as serialize_key hands its output to the KeySerializer for
\* the key of entry i of the map m: the entries before i are written and the
\* separator of entry i is dealt with
Handed(m, i) == Separator(SerializeEntries(serialize_map(NewSerializer), SubSeq(m.s, 1, i - 1), 1))

\* the first entry of the map m whose key is refused
FirstBad(m) == CHOOSE i \in BadKeys(m) : \A j \in BadKeys(m) : i <= j

\* C30: a KeySerializer that refuses a key with KeyNotString has written no
\* byte and has left the Serializer's start flag as it was; the output is
\* then the `{`, the entries before that key and, for a key that is not the
\* first, the `,`, and nothing is added to it afterwards.
C30_RejectedKeyFrame ==
  (pc = "failed" /\ value.t = "map" /\ output.err = "KeyNotString") =>
    /\ BadKeys(value) # {}
    /\ Handed(value, FirstBad(value)).err = ""
    /\ KeySerializer(Handed(value, FirstBad(value)), value.s[FirstBad(value)].s[1])
         = [Handed(value, FirstBad(value)) EXCEPT !.err = "KeyNotString"]
    /\ output = [Handed(value, FirstBad(value)) EXCEPT !.err = "KeyNotString"]
    /\ output.out = BeforeEntry(value, FirstBad(value))
    /\ output.start = FALSE

\* a second key is refused after the first entry and the `,` are written
C30_Witness ==
  /\ pc = "failed"
  /\ value.t = "map"
  /\ output.err = "KeyNotString"
  /\ FirstBad(value) = 2
  /\ Len(output.out) > 1
  /\ output.out[Len(output.out)] = B.comma

====
